---- MODULE Spec2Model ----
(***************************************************************************)
(* ChaosOracle agents: the worker and verifier poll loops                  *)
(* (agents/worker/main.py, agents/verifier/main.py), the two submission    *)
(* backends (agents/shared/direct_submitter.py, agents/shared/sdk_client.py)*)
(* and the ledger reads (agents/shared/registry_reader.py), run against a  *)
(* ledger whose write rules are taken from the specification's data model. *)
(*                                                                         *)
(* One behaviour is one agent process (role, mode fixed at construction)   *)
(* together with the ledger it observes.  Every await / RPC call of the    *)
(* loop is one action; the ledger executes in-flight writes on its own.    *)
(***************************************************************************)
EXTENDS Integers, Sequences, FiniteSets, TLC

\* ---- bounds ------------------------------------------------------------
NumUnits == 2
NumWorkers == 2
MaxAttempts == 2
MaxRestarts == 1
MaxOthers == 2

Units == 1..NumUnits
Workers == 1..NumWorkers

\* Score vectors an audit can hand to submit_scores (already clamped to
\* [0,100] by Auditor.audit): the all-zero vector and one whose only
\* non-zero slot is the last.
ZeroVec == <<0, 0, 0, 0>>
ScoreVectors == {ZeroVec, <<0, 0, 0, 7>>}

VARIABLES
    role, mode,                 \* fixed at construction
    \* ---- ledger -----------------------------------------------------------
    settled, closed,            \* units no longer active / epoch closed
    reg,                        \* units where this wallet holds its role's registration flag
    sub,                        \* worker role: own submission per unit (0 = timestamp 0)
    wl, wsub,                   \* verifier role: length of workerList, workers with a submission
    vscore,                     \* verifier role: this wallet's 4 score slots per (unit, worker)
    inflight,                   \* broadcast transactions / submitted workflows not yet executed
    \* ---- process ----------------------------------------------------------
    pc, studios, idx, unscored, jdx,
    participated, scored_pairs,
    qEmpty, cid, scores, awaitTx, awaitRes,
    \* ---- model counters ---------------------------------------------------
    attempts, restarts,
    \* ---- history ----------------------------------------------------------
    workOK, regOK, regConfirmed,
    regReq,                     \* register_with_studio calls of the delegating backend, per unit
    returned, failed, steps, afs, archN,
    subAtRestart, snapRec,
    \* ---- identity (sdk_client.auto_register) ------------------------------
    idChain,                    \* identity tokens this wallet holds on the identity registry
    idCache,                    \* id cached for this wallet in chaoschain_agent_ids.json (0 = none)
    agent_id,                   \* self.agent_id (-1 = None)
    \* ---- shutdown, account nonce -----------------------------------------
    shutdown,                   \* shutdown_event is set
    txCount,                    \* get_transaction_count(address): mined transactions of the wallet
    \* ---- inputs and result of a single read or audit ----------------------
    fault, slotErr, out, raw,   \* a single call: failure of the RPC, failing slot, outcome, input
    res                         \* a single call: the value returned

ledgerVars == <<settled, closed, reg, sub, wl, wsub, vscore, inflight>>
ledgerHist == <<workOK, regOK, regReq>>
cfgVars    == <<role, mode>>
loopVars   == <<studios, idx, unscored, jdx>>
progVars   == <<participated, scored_pairs>>
attVars    == <<qEmpty, cid, scores, awaitTx, awaitRes>>
cntVars    == <<attempts, restarts>>
readHist   == <<subAtRestart, snapRec>>
procHist   == <<regConfirmed, returned, failed, steps, afs, archN>>
idVars     == <<idChain, idCache, agent_id>>
fnVars     == <<fault, slotErr, out, raw, res>>
restVars   == <<idVars, shutdown, txCount, fnVars>>

vars == <<role, mode, settled, closed, reg, sub, wl, wsub, vscore, inflight,
          pc, studios, idx, unscored, jdx, participated, scored_pairs,
          qEmpty, cid, scores, awaitTx, awaitRes, attempts, restarts,
          workOK, regOK, regReq, regConfirmed, returned, failed, steps, afs,
          archN, subAtRestart, snapRec, idChain, idCache, agent_id,
          shutdown, txCount, fault, slotErr, out, raw, res>>

\* ---- helpers -----------------------------------------------------------
NoTx == [kind |-> "none", unit |-> 0, worker |-> 0, cid |-> 0, scores |-> ZeroVec, att |-> 0,
         nonce |-> 0]

\* vscore[u][w] before any score write of this wallet; its four slots read as 0.
Unset == <<>>
Slots(v) == IF v = Unset THEN ZeroVec ELSE v

RECURSIVE SeqOfSet(_)
SeqOfSet(S) ==
    IF S = {} THEN <<>>
    ELSE LET m == CHOOSE x \in S : \A y \in S : x <= y
         IN <<m>> \o SeqOfSet(S \ {m})

Range(s) == {s[i] : i \in 1..Len(s)}

CurU == studios[idx]
CurW == unscored[jdx]
Key == IF role = "worker" THEN <<CurU, 0>> ELSE <<CurU, CurW>>

DirectPcs == {"d_check", "d_reg_send", "d_reg_wait", "d_main_send", "d_main_wait"}
GatewayPcs == {"g_reg", "g_submit", "g_wait"}
BackendPcs == DirectPcs \cup GatewayPcs

\* ---- the ledger (contracts/, modelled from the specification) ----------
\* A registration flag is set once; a Submission is immutable once written
\* (timestamp 0 means "not yet submitted"); a score vector is stored per
\* (unit, submitter, scorer) for a submission that exists.
\* Variant: a ledger that writes a submission over an existing one.
LedgerAcceptsDup(tx) ==
    IF tx.kind \in {"identity", "reg"} THEN TRUE
    ELSE tx.unit \in reg

LedgerAccepts(tx) ==
    IF tx.kind = "identity" THEN TRUE
    ELSE IF tx.kind = "reg" THEN tx.unit \notin reg
    ELSE IF role = "worker" THEN tx.unit \in reg /\ sub[tx.unit] = 0
    ELSE tx.unit \in reg /\ tx.worker \in wsub[tx.unit]

\* Effect of one executed write; ok = FALSE is a revert (receipt status 0).
LedgerApply(tx, ok) ==
    /\ idChain' = IF ok /\ tx.kind = "identity" THEN idChain + 1 ELSE idChain
    /\ reg' = IF ok /\ tx.kind = "reg" THEN reg \cup {tx.unit} ELSE reg
    /\ regOK' = IF ok /\ tx.kind = "reg" /\ regOK[tx.unit] < 2
                THEN [regOK EXCEPT ![tx.unit] = @ + 1] ELSE regOK
    /\ sub' = IF ok /\ tx.kind = "main" /\ role = "worker"
              THEN [sub EXCEPT ![tx.unit] = tx.cid] ELSE sub
    /\ workOK' = IF ok /\ tx.kind = "main" /\ role = "worker" /\ workOK[tx.unit] < 2
                 THEN [workOK EXCEPT ![tx.unit] = @ + 1] ELSE workOK
    /\ UNCHANGED regReq
    /\ vscore' = IF ok /\ tx.kind = "main" /\ role = "verifier"
                 THEN [vscore EXCEPT ![tx.unit][tx.worker] = tx.scores] ELSE vscore

\* The chain mines a pending transaction (the wallet's transaction count
\* goes up by one, reverted or not), or the orchestrator finishes a
\* workflow.  The write may revert for reasons outside the data model
\* (gas, funds, further contract requirements): envOk.
\* Only auto_register reads the identity registry, so an identity
\* registration is executed while the process is there (or has ended):
\* executing it later is indistinguishable from leaving it pending.
LedgerExec ==
    \E tx \in inflight, envOk \in BOOLEAN :
        LET ok == envOk /\ LedgerAccepts(tx) IN
        /\ tx.kind = "identity" => pc \in {"start", "id_lookup", "id_send", "id_wait", "dead"}
        /\ LedgerApply(tx, ok)
        /\ inflight' = inflight \ {tx}
        /\ awaitRes' = IF tx = awaitTx /\ awaitRes = "pending"
                       THEN (IF ok THEN "ok" ELSE "rev") ELSE awaitRes
        /\ txCount' = IF mode = "local" THEN txCount + 1 ELSE txCount
        /\ UNCHANGED <<settled, closed, wl, wsub, cfgVars, idCache, agent_id, shutdown,
                       fnVars, pc, loopVars, progVars,
                       qEmpty, cid, scores, awaitTx, cntVars, readHist, procHist>>

CloseEpoch ==
    \E u \in Units \ closed :
        /\ closed' = closed \cup {u}
        /\ UNCHANGED <<settled, reg, sub, wl, wsub, vscore, inflight, ledgerHist, cfgVars, restVars,
                       pc, loopVars, progVars, attVars, cntVars, readHist, procHist>>

\* A closed unit is settled and leaves the active list.  Only
\* get_active_studios reads the list, so the step is taken right before a
\* read: settling earlier is indistinguishable from settling then.
Settle ==
    \E u \in closed \ settled :
        /\ pc = "poll"
        /\ settled' = settled \cup {u}
        /\ UNCHANGED <<closed, reg, sub, wl, wsub, vscore, inflight, ledgerHist, cfgVars, restVars,
                       pc, loopVars, progVars, attVars, cntVars, readHist, procHist>>

RECURSIVE SumUpTo(_, _)
SumUpTo(f, n) == IF n = 0 THEN 0 ELSE f[n] + SumUpTo(f, n - 1)

\* Registrations of other wallets so far, over all units.
OtherCount == SumUpTo(wl, NumUnits)

\* Another wallet registers as worker in a unit (workerList is append-only:
\* the k-th wallet to register is worker k of that unit) / submits its work.
OtherRegister ==
    \E u \in Units \ closed :
        /\ role = "verifier"
        /\ wl[u] < NumWorkers
        /\ OtherCount < MaxOthers
        /\ wl' = [wl EXCEPT ![u] = @ + 1]
        /\ UNCHANGED <<settled, closed, reg, sub, wsub, vscore, inflight, ledgerHist, cfgVars, restVars,
                       pc, loopVars, progVars, attVars, cntVars, readHist, procHist>>

OtherSubmit ==
    \E u \in Units \ closed, w \in Workers :
        /\ role = "verifier"
        /\ w \in 1..wl[u] /\ w \notin wsub[u]
        /\ wsub' = [wsub EXCEPT ![u] = @ \cup {w}]
        /\ UNCHANGED <<settled, closed, reg, sub, wl, vscore, inflight, ledgerHist, cfgVars, restVars,
                       pc, loopVars, progVars, attVars, cntVars, readHist, procHist>>

\* ---- construction ------------------------------------------------------
Init ==
    /\ role \in {"worker", "verifier"}
    /\ mode \in {"local", "gateway"}
    /\ settled = {} /\ closed = {} /\ reg = {}
    /\ sub = [u \in Units |-> 0]
    /\ wl = [u \in Units |-> 0]
    /\ wsub = [u \in Units |-> {}]
    /\ vscore = [u \in Units |-> [w \in Workers |-> Unset]]
    /\ inflight = {}
    /\ pc = "start"
    /\ studios = <<>> /\ idx = 1 /\ unscored = <<>> /\ jdx = 1
    /\ participated = {} /\ scored_pairs = {}
    /\ qEmpty = FALSE /\ cid = 0 /\ scores = ZeroVec
    /\ awaitTx = NoTx /\ awaitRes = "none"
    /\ attempts = 0 /\ restarts = 0
    /\ workOK = [u \in Units |-> 0]
    /\ regOK = [u \in Units |-> 0]
    /\ regReq = [u \in Units |-> 0]
    /\ regConfirmed = {}
    /\ returned = {} /\ failed = {} /\ steps = {} /\ afs = {}
    /\ archN = [u \in Units |-> 0]
    /\ subAtRestart = {} /\ snapRec = {}
    /\ \E p \in (IF mode = "gateway" THEN {<<0, 0>>, <<1, 0>>, <<1, 1>>} ELSE {<<0, 0>>}) :
          idChain = p[1] /\ idCache = p[2]
    /\ agent_id = -1
    /\ shutdown = FALSE /\ txCount = 0
    /\ fault = "none" /\ slotErr = [w \in Workers |-> 0] /\ out = "none" /\ raw = <<>> /\ res = <<>>

\* ---- exception handlers and normal completion of the loops -------------
\* What the steps below leave alone.
envSame    == <<cfgVars, restVars, ledgerVars, ledgerHist, cntVars, readHist>>
raiseSame  == <<envSame, cid, regConfirmed, returned, steps, archN>>
returnSame == <<envSame, cid, regConfirmed, steps, archN>>
stepSame   == <<envSame, loopVars, progVars, regConfirmed, returned, failed, afs, archN>>

\* Locals of the finished attempt that no later step reads before it
\* assigns them again.
AttDone ==
    /\ qEmpty' = FALSE /\ scores' = ZeroVec
    /\ awaitTx' = NoTx /\ awaitRes' = "none"

\* Variant: the enclosing for loop is left, the tick ends.
NextElementEndsTick ==
    /\ pc' = "sleep"
    /\ UNCHANGED <<studios, idx, unscored, jdx>>

\* Variant: the element after the next one is taken.
NextElementSkips ==
    /\ IF role = "worker"
       THEN pc' = "loop" /\ idx' = idx + 2 /\ UNCHANGED jdx
       ELSE pc' = "vloop" /\ jdx' = jdx + 2 /\ UNCHANGED idx
    /\ UNCHANGED <<studios, unscored>>

\* The enclosing for loop takes its next element.
NextElement ==
    /\ IF role = "worker"
       THEN pc' = "loop" /\ idx' = idx + 1 /\ UNCHANGED jdx
       ELSE pc' = "vloop" /\ jdx' = jdx + 1 /\ UNCHANGED idx
    /\ UNCHANGED <<studios, unscored>>

\* worker/main.py:189-191 (per unit) and verifier/main.py:198-204 (per pair):
\* the exception is logged, nothing is added to the progress set and the
\* enclosing for loop goes on with its next element.
\* Variant: the handler marks the unit / pair as done.
RaiseMarksDone ==
    /\ failed' = IF role = "worker" THEN failed \cup {CurU} ELSE failed
    /\ afs' = afs
    /\ participated' = IF role = "worker" THEN participated \cup {CurU} ELSE participated
    /\ scored_pairs' = IF role = "verifier" THEN scored_pairs \cup {<<CurU, CurW>>}
                       ELSE scored_pairs
    /\ NextElement
    /\ AttDone

\* Variant: the handler takes the same element again.
RaiseRetriesSame ==
    /\ failed' = IF role = "worker" THEN failed \cup {CurU} ELSE failed
    /\ afs' = afs
    /\ UNCHANGED <<participated, scored_pairs>>
    /\ pc' = (IF role = "worker" THEN "loop" ELSE "vloop")
    /\ UNCHANGED <<studios, idx, unscored, jdx>>
    /\ AttDone

Raise ==
    /\ failed' = IF role = "worker" THEN failed \cup {CurU} ELSE failed
    /\ afs' = IF role = "worker"
              THEN (IF pc \in BackendPcs /\ "archive" \in steps
                    THEN afs \cup {CurU} ELSE afs \ {CurU})
              ELSE afs
    /\ UNCHANGED <<participated, scored_pairs>>
    /\ NextElement
    /\ AttDone

\* verifier/main.py:206-207: a failure of the details or unscored read of a unit.
RaiseUnit ==
    /\ pc' = "loop" /\ idx' = idx + 1
    /\ UNCHANGED <<studios, unscored, jdx, participated, scored_pairs, failed, afs, attVars>>

\* worker/main.py:181 and verifier/main.py:190: the backend call returned,
\* the unit / pair is added to the progress set.
\* Variant: the progress set is not updated after the call returned.
ReturnNoMark ==
    /\ returned' = returned \cup {Key}
    /\ failed' = failed \ {CurU}
    /\ afs' = afs \ {CurU}
    /\ UNCHANGED <<participated, scored_pairs>>
    /\ NextElement
    /\ AttDone

\* Variant: the loop marks the element only when the backend is the direct one.
ReturnMarksDirectOnly ==
    /\ returned' = returned \cup {Key}
    /\ failed' = failed \ {CurU}
    /\ afs' = afs \ {CurU}
    /\ IF mode = "local"
       THEN IF role = "worker"
            THEN participated' = participated \cup {CurU} /\ UNCHANGED scored_pairs
            ELSE scored_pairs' = scored_pairs \cup {<<CurU, CurW>>} /\ UNCHANGED participated
       ELSE UNCHANGED <<participated, scored_pairs>>
    /\ NextElement
    /\ AttDone

\* Variant: the progress set is replaced by the new element.
ReturnForgetsOthers ==
    /\ returned' = returned \cup {Key}
    /\ failed' = failed \ {CurU}
    /\ afs' = afs \ {CurU}
    /\ IF role = "worker"
       THEN participated' = {CurU} /\ UNCHANGED scored_pairs
       ELSE scored_pairs' = {<<CurU, CurW>>} /\ UNCHANGED participated
    /\ NextElement
    /\ AttDone

Return ==
    /\ returned' = returned \cup {Key}
    /\ failed' = failed \ {CurU}
    /\ afs' = afs \ {CurU}
    /\ IF role = "worker"
       THEN participated' = participated \cup {CurU} /\ UNCHANGED scored_pairs
       ELSE scored_pairs' = scored_pairs \cup {<<CurU, CurW>>} /\ UNCHANGED participated
    /\ NextElement
    /\ AttDone

EntryPc == IF mode = "local" THEN "d_check" ELSE "g_reg"

\* ---- start-up, poll, sleep, restart ------------------------------------
\* What the identity steps leave alone.
idSame == <<cfgVars, shutdown, txCount, fnVars, settled, closed, reg, sub, wl, wsub, vscore,
            ledgerHist, cntVars, readHist, loopVars, progVars, qEmpty, cid, scores, procHist>>

\* The identity-registration transaction of sdk.register_agent.
IdTx == [kind |-> "identity", unit |-> 0, worker |-> 0, cid |-> 0, scores |-> ZeroVec,
         att |-> restarts, nonce |-> 0]

\* _save_cached_agent_id followed by self.agent_id = id; write_text may raise
\* OSError, which ends run() before the loop.
SaveAndReturn(id) ==
    \/ idCache' = id /\ agent_id' = id /\ pc' = "poll"
    \/ pc' = "dead" /\ UNCHANGED <<idCache, agent_id>>

\* Variant: the cache is not consulted.
StartSkipsCache ==
    /\ pc = "start"
    /\ \/ /\ mode = "local"
          /\ agent_id' = 0 /\ pc' = "poll"
       \/ /\ mode = "gateway"
          /\ pc' = "id_lookup"
          /\ UNCHANGED agent_id
    /\ UNCHANGED <<idSame, idChain, idCache, inflight, awaitTx, awaitRes>>

\* run() up to the loop: components built, auto_register called, progress set
\* created empty.  DirectSubmitter.auto_register returns 0.  The gateway
\* client loads its cache first (sdk_client.py:127-131): a cached id is
\* returned at once, a miss leads to the on-chain lookup.
Start ==
    /\ pc = "start"
    /\ \/ /\ mode = "local"
          /\ agent_id' = 0 /\ pc' = "poll"
       \/ /\ mode = "gateway" /\ idCache # 0
          /\ agent_id' = idCache /\ pc' = "poll"
       \/ /\ mode = "gateway" /\ idCache = 0
          /\ pc' = "id_lookup"
          /\ UNCHANGED agent_id
    /\ UNCHANGED <<idSame, idChain, idCache, inflight, awaitTx, awaitRes>>

\* Variant: the on-chain lookup is left out.
IdLookupNoChainCheck ==
    /\ pc = "id_lookup"
    /\ pc' = "id_send"
    /\ UNCHANGED <<idSame, idVars, inflight, awaitTx, awaitRes>>

\* sdk.chaos_agent.get_agent_id() (sdk_client.py:134-139): an id found on
\* chain is cached and returned, none leads to the registration; an error
\* raised here is outside the loop's handlers and ends run().
IdLookup ==
    /\ pc = "id_lookup"
    /\ \/ /\ pc' = "dead"
          /\ UNCHANGED <<idCache, agent_id>>
       \/ /\ idChain > 0
          /\ \E id \in 1..idChain : SaveAndReturn(id)
       \/ /\ idChain = 0
          /\ pc' = "id_send"
          /\ UNCHANGED <<idCache, agent_id>>
    /\ UNCHANGED <<idSame, idChain, inflight, awaitTx, awaitRes>>

\* sdk.register_agent (sdk_client.py:143): the registration is sent ...
IdSend ==
    /\ pc = "id_send"
    /\ \/ /\ pc' = "dead"
          /\ UNCHANGED <<inflight, awaitTx, awaitRes>>
       \/ /\ inflight' = inflight \cup {IdTx}
          /\ awaitTx' = IdTx
          /\ awaitRes' = "pending"
          /\ pc' = "id_wait"
    /\ UNCHANGED <<idSame, idVars>>

\* ... and its result awaited: the new id is cached and returned, or the
\* call raises (not mined in time, reverted).
IdWait ==
    /\ pc = "id_wait"
    /\ \/ /\ awaitRes \in {"pending", "rev"}
          /\ pc' = "dead"
          /\ UNCHANGED <<idCache, agent_id>>
       \/ /\ awaitRes = "ok"
          /\ SaveAndReturn(idChain)
    /\ awaitTx' = NoTx /\ awaitRes' = "none"
    /\ UNCHANGED <<idSame, idChain, inflight>>

\* RegistryReader.get_active_studios: the ledger's list in the ledger's order,
\* [] on a logical error, or the connection error re-raised (caught at the
\* top of the loop, main.py:193 / 209).
PollOk ==
    /\ pc = "poll"
    /\ studios' = SeqOfSet(Units \ settled)
    /\ idx' = 1 /\ pc' = "loop"
    /\ UNCHANGED <<envSame, unscored, jdx, progVars, attVars, procHist>>

PollEmpty ==
    /\ pc = "poll"
    /\ studios' = <<>>
    /\ idx' = 1 /\ pc' = "loop"
    /\ UNCHANGED <<envSame, unscored, jdx, progVars, attVars, procHist>>

\* Variant: the connection error is not caught at the top of the loop.
PollRaiseEndsLoop ==
    /\ pc = "poll"
    /\ pc' = "dead"
    /\ UNCHANGED <<envSame, loopVars, progVars, attVars, procHist>>

\* Variant: the handler at the top of the loop empties the progress sets.
PollRaiseForgets ==
    /\ pc = "poll"
    /\ pc' = "sleep"
    /\ participated' = {} /\ scored_pairs' = {}
    /\ UNCHANGED <<envSame, loopVars, attVars, procHist>>

PollRaise ==
    /\ pc = "poll"
    /\ pc' = "sleep"
    /\ UNCHANGED <<envSame, loopVars, progVars, attVars, procHist>>

Sleep ==
    /\ pc = "sleep"
    /\ pc' = "poll"
    /\ UNCHANGED <<envSame, loopVars, progVars, attVars, procHist>>

\* ---- shutdown (worker/main.py:204-236, verifier/main.py:220-251) ---------
\* The awaits at which the loop task can be suspended: asyncio.sleep and the
\* HTTP calls of research, archival, fetch and audit (aiohttp).  The ledger
\* reads and both backends are blocking calls without a suspension.
SuspendPcs == {"sleep", "research", "archive", "fetch", "audit"}

\* What a process leaves behind when it ends: its memory is gone.
MemoryGone ==
    /\ studios' = <<>> /\ idx' = 1 /\ unscored' = <<>> /\ jdx' = 1
    /\ participated' = {} /\ scored_pairs' = {}
    /\ cid' = 0 /\ AttDone
    /\ returned' = {} /\ failed' = {} /\ steps' = {} /\ afs' = {}
    /\ snapRec' = {}
    /\ agent_id' = -1

\* Variant: the cancellation is caught by the handlers as an error is.
ShutdownSwallowed ==
    /\ ~shutdown /\ pc \in SuspendPcs
    /\ shutdown' = TRUE
    /\ IF pc = "sleep"
       THEN /\ pc' = "poll"
            /\ UNCHANGED <<loopVars, progVars, attVars, procHist>>
       ELSE /\ Raise
            /\ UNCHANGED <<cid, regConfirmed, returned, steps, archN>>
    /\ UNCHANGED <<cfgVars, idVars, txCount, fnVars, ledgerVars, ledgerHist, cntVars, readHist>>

\* SIGTERM / SIGINT: _signal_handler sets shutdown_event.  The loop task
\* does not read the event; _run_until_shutdown wakes when the task is
\* suspended at an await and calls task.cancel(): CancelledError is raised
\* at that await, passes the `except Exception` handlers and ends run(),
\* and main() returns.  A signal that arrives while the task runs has its
\* effect at the task's next suspension, so the step is taken there.
Shutdown ==
    /\ ~shutdown /\ pc \in SuspendPcs
    /\ shutdown' = TRUE
    /\ pc' = "stopped"
    /\ MemoryGone
    /\ UNCHANGED <<cfgVars, idChain, idCache, txCount, fnVars, ledgerVars, ledgerHist, cntVars,
                   subAtRestart, regConfirmed, archN>>

\* The process dies at any point and is started again: everything it held in
\* memory is gone, the ledger and what is in flight stay.
Restart ==
    /\ restarts < MaxRestarts
    /\ pc # "start"
    /\ restarts' = restarts + 1
    /\ pc' = "start"
    /\ MemoryGone
    /\ shutdown' = FALSE
    /\ subAtRestart' = {u \in Units : sub[u] # 0}
    /\ UNCHANGED <<cfgVars, idChain, idCache, txCount, fnVars, ledgerVars,
                   ledgerHist, attempts, regConfirmed, archN>>

\* ---- worker loop (worker/main.py:144-191) ------------------------------
\* Head of `for studio_address in studios`: end of list, a unit already in
\* participated (continue), or the pipeline of the unit starts at step 1.
\* Variant: a unit whose submit failed resumes at submit_work with the old reference.
WorkerLoopResume ==
    /\ pc = "loop" /\ role = "worker"
    /\ \/ /\ idx > Len(studios)
          /\ pc' = "sleep"
          /\ UNCHANGED <<idx, attempts, steps>>
       \/ /\ idx <= Len(studios) /\ CurU \in participated
          /\ idx' = idx + 1
          /\ UNCHANGED <<pc, attempts, steps>>
       \/ /\ idx <= Len(studios) /\ CurU \notin participated
          /\ attempts < MaxAttempts
          /\ attempts' = attempts + 1
          /\ steps' = {}
          /\ pc' = IF CurU \in afs THEN EntryPc ELSE "details"
          /\ UNCHANGED idx
    /\ UNCHANGED <<cfgVars, restVars, ledgerVars, ledgerHist, restarts, readHist, studios, unscored,
                   jdx, progVars, attVars, regConfirmed, returned, failed, afs, archN>>

\* Variant: no membership test on participated.
WorkerLoopNoDedup ==
    /\ pc = "loop" /\ role = "worker"
    /\ \/ /\ idx > Len(studios)
          /\ pc' = "sleep"
          /\ UNCHANGED <<idx, attempts, steps>>
       \/ /\ idx <= Len(studios)
          /\ attempts < MaxAttempts
          /\ attempts' = attempts + 1
          /\ steps' = {}
          /\ pc' = "details"
          /\ UNCHANGED idx
    /\ UNCHANGED <<cfgVars, restVars, ledgerVars, ledgerHist, restarts, readHist, studios, unscored,
                   jdx, progVars, attVars, regConfirmed, returned, failed, afs, archN>>

WorkerLoop ==
    /\ pc = "loop" /\ role = "worker"
    /\ \/ /\ idx > Len(studios)
          /\ pc' = "sleep"
          /\ UNCHANGED <<idx, attempts, steps>>
       \/ /\ idx <= Len(studios) /\ CurU \in participated
          /\ idx' = idx + 1
          /\ UNCHANGED <<pc, attempts, steps>>
       \/ /\ idx <= Len(studios) /\ CurU \notin participated
          /\ attempts < MaxAttempts
          /\ attempts' = attempts + 1
          /\ steps' = {}
          /\ pc' = "details"
          /\ UNCHANGED idx
    /\ UNCHANGED <<cfgVars, restVars, ledgerVars, ledgerHist, restarts, readHist, studios, unscored,
                   jdx, progVars, attVars, regConfirmed, returned, failed, afs, archN>>

\* 1. get_studio_details (registry_reader.py:131-171 has no handler of its
\* own: an RPC error is raised); a closed unit is added to participated.
\* Variant: the unit is skipped and marked whatever its closed flag reads.
WorkerDetailsMarksOpen ==
    /\ pc = "details"
    /\ participated' = participated \cup {CurU}
    /\ failed' = failed \ {CurU}
    /\ afs' = afs \ {CurU}
    /\ pc' = "loop" /\ idx' = idx + 1
    /\ UNCHANGED <<envSame, studios, unscored, jdx, scored_pairs, attVars,
                   regConfirmed, returned, steps, archN>>

WorkerDetails ==
    /\ pc = "details"
    /\ \/ /\ Raise
          /\ UNCHANGED raiseSame
       \/ /\ CurU \in closed
          /\ participated' = participated \cup {CurU}
          /\ failed' = failed \ {CurU}
          /\ afs' = afs \ {CurU}
          /\ pc' = "loop" /\ idx' = idx + 1
          /\ UNCHANGED <<envSame, studios, unscored, jdx, scored_pairs, attVars,
                         regConfirmed, returned, steps, archN>>
       \/ /\ CurU \notin closed
          /\ \E q \in BOOLEAN : qEmpty' = q
          /\ steps' = steps \cup {"details"}
          /\ pc' = "research"
          /\ UNCHANGED <<stepSame, cid, scores, awaitTx, awaitRes>>

\* 2. Researcher.research: every failure inside it is caught and replaced by
\* a fallback result (researcher.py:88-143, 318-325).
WorkerResearch ==
    /\ pc = "research"
    /\ steps' = steps \cup {"research"}
    /\ pc' = "build"
    /\ UNCHANGED <<stepSame, attVars>>

\* 3. EvidenceBuilder.build raises ValueError for an empty question
\* (evidence.py:78-79); outcome and confidence from research are in range.
WorkerBuild ==
    /\ pc = "build"
    /\ IF qEmpty
       THEN /\ Raise
            /\ UNCHANGED raiseSame
       ELSE /\ steps' = steps \cup {"build"}
            /\ pc' = "archive"
            /\ UNCHANGED <<stepSame, attVars>>

\* Variant: submit_work is entered although the upload has failed.
WorkerArchiveIgnoresFailure ==
    /\ pc = "archive"
    /\ pc' = EntryPc
    /\ UNCHANGED <<stepSame, attVars, steps>>

\* 4. ArweaveClient.upload_evidence: a fresh reference per package (the
\* package carries its creation time), or RuntimeError from the bundler.
\* 5. sdk_client.submit_work is entered with that reference.
WorkerArchive ==
    /\ pc = "archive"
    /\ \/ /\ Raise
          /\ UNCHANGED raiseSame
       \/ /\ cid' = attempts
          /\ archN' = [archN EXCEPT ![CurU] = @ + 1]
          /\ steps' = steps \cup {"archive"}
          /\ pc' = EntryPc
          /\ UNCHANGED <<envSame, loopVars, progVars, qEmpty, scores, awaitTx, awaitRes,
                         regConfirmed, returned, failed, afs>>

\* ---- direct backend (direct_submitter.py) ------------------------------
\* The transaction the current call builds: registerAsWorker/Verifier with
\* stake, or submitWork(outcome, cid) / submitScores(worker, scores).
TxOf(kind) ==
    [kind |-> kind, unit |-> CurU,
     worker |-> IF role = "verifier" THEN CurW ELSE 0,
     cid |-> IF role = "worker" /\ kind = "main" THEN cid ELSE 0,
     scores |-> IF role = "verifier" /\ kind = "main" THEN scores ELSE ZeroVec,
     att |-> attempts,
     nonce |-> IF mode = "local" THEN txCount ELSE 0]

\* direct_submitter.py:134 / 192: isWorkerRegistered / isVerifierRegistered.
\* Variant: the registration is sent whatever the flag reads.
DirectCheckAlwaysRegister ==
    /\ pc = "d_check"
    /\ \/ /\ Raise
          /\ UNCHANGED raiseSame
       \/ /\ pc' = "d_reg_send"
          /\ UNCHANGED <<stepSame, attVars, steps>>

DirectCheck ==
    /\ pc = "d_check"
    /\ \/ /\ Raise
          /\ UNCHANGED raiseSame
       \/ /\ pc' = IF CurU \in reg THEN "d_main_send" ELSE "d_reg_send"
          /\ UNCHANGED <<stepSame, attVars, steps>>

\* _build_tx + sign + send_raw_transaction (direct_submitter.py:70-71, 80-88).
\* The nonce is the account's mined transaction count, so a transaction of
\* this wallet that is still pending has the same nonce: the node replaces
\* it by the new one, or refuses the new one (an error is raised).
DirectSend(kind) ==
    /\ pc = (IF kind = "reg" THEN "d_reg_send" ELSE "d_main_send")
    /\ \/ /\ Raise
          /\ UNCHANGED raiseSame
       \/ /\ inflight' = {TxOf(kind)}
          /\ awaitTx' = TxOf(kind)
          /\ awaitRes' = "pending"
          /\ pc' = (IF kind = "reg" THEN "d_reg_wait" ELSE "d_main_wait")
          /\ UNCHANGED <<cfgVars, restVars, settled, closed, reg, sub, wl, wsub, vscore, ledgerHist,
                         cntVars, readHist, loopVars, progVars, qEmpty, cid, scores,
                         regConfirmed, returned, failed, steps, afs, archN>>

DirectRegSend == DirectSend("reg")

DirectMainSend == DirectSend("main")

\* wait_for_transaction_receipt(timeout=60) and the status check of the
\* registration transaction (direct_submitter.py:72-78, 144).
\* Variant: the receipt status of the registration is not looked at.
DirectRegWaitNoStatusCheck ==
    /\ pc = "d_reg_wait"
    /\ \/ /\ awaitRes = "pending"
          /\ Raise
          /\ UNCHANGED raiseSame
       \/ /\ awaitRes \in {"ok", "rev"}
          /\ regConfirmed' = IF awaitRes = "ok" THEN regConfirmed \cup {CurU} ELSE regConfirmed
          /\ pc' = "d_main_send"
          /\ UNCHANGED <<envSame, loopVars, progVars, attVars,
                         returned, failed, steps, afs, archN>>

DirectRegWait ==
    /\ pc = "d_reg_wait"
    /\ \/ /\ awaitRes \in {"pending", "rev"}
          /\ Raise
          /\ UNCHANGED raiseSame
       \/ /\ awaitRes = "ok"
          /\ regConfirmed' = regConfirmed \cup {CurU}
          /\ pc' = "d_main_send"
          /\ UNCHANGED <<envSame, loopVars, progVars, attVars,
                         returned, failed, steps, afs, archN>>

\* The same for the main transaction (direct_submitter.py:157-160, 220-223).
DirectMainWait ==
    /\ pc = "d_main_wait"
    /\ \/ /\ awaitRes \in {"pending", "rev"}
          /\ Raise
          /\ UNCHANGED raiseSame
       \/ /\ awaitRes = "ok"
          /\ Return
          /\ UNCHANGED returnSame

\* ---- delegating backend (sdk_client.py) --------------------------------
\* sdk.register_with_studio (sdk_client.py:185-189, 253-257): called on every
\* submit without a read of the flag; it raises, or returns with the wallet
\* registered.
\* Variant: no request is made for a unit the wallet is registered in.
GatewayRegisterOnce ==
    /\ pc = "g_reg"
    /\ regReq' = IF CurU \in reg THEN regReq ELSE [regReq EXCEPT ![CurU] = @ + 1]
    /\ \/ /\ CurU \notin reg
          /\ Raise
          /\ UNCHANGED <<cfgVars, restVars, ledgerVars, workOK, regOK, cntVars, readHist,
                         cid, regConfirmed, returned, steps, archN>>
       \/ /\ reg' = reg \cup {CurU}
          /\ regOK' = IF CurU \notin reg /\ regOK[CurU] < 2
                      THEN [regOK EXCEPT ![CurU] = @ + 1] ELSE regOK
          /\ pc' = "g_submit"
          /\ UNCHANGED <<cfgVars, restVars, settled, closed, sub, wl, wsub, vscore, inflight, workOK,
                         cntVars, readHist, loopVars, progVars, attVars,
                         regConfirmed, returned, failed, steps, afs, archN>>

GatewayRegister ==
    /\ pc = "g_reg"
    /\ regReq' = [regReq EXCEPT ![CurU] = @ + 1]
    /\ \/ /\ Raise
          /\ UNCHANGED <<cfgVars, restVars, ledgerVars, workOK, regOK, cntVars, readHist,
                         cid, regConfirmed, returned, steps, archN>>
       \/ /\ reg' = reg \cup {CurU}
          /\ regOK' = IF CurU \notin reg /\ regOK[CurU] < 2
                      THEN [regOK EXCEPT ![CurU] = @ + 1] ELSE regOK
          /\ pc' = "g_submit"
          /\ UNCHANGED <<cfgVars, restVars, settled, closed, sub, wl, wsub, vscore, inflight, workOK,
                         cntVars, readHist, loopVars, progVars, attVars,
                         regConfirmed, returned, failed, steps, afs, archN>>

\* sdk.submit_work_via_gateway / submit_score_via_gateway (sdk_client.py:199-206,
\* 263-270): the workflow is created at the orchestrator.
GatewaySubmit ==
    /\ pc = "g_submit"
    /\ \/ /\ Raise
          /\ UNCHANGED raiseSame
       \/ /\ inflight' = inflight \cup {TxOf("main")}
          /\ awaitTx' = TxOf("main")
          /\ awaitRes' = "pending"
          /\ pc' = "g_wait"
          /\ UNCHANGED <<cfgVars, restVars, settled, closed, reg, sub, wl, wsub, vscore, ledgerHist,
                         cntVars, readHist, loopVars, progVars, qEmpty, cid, scores,
                         regConfirmed, returned, failed, steps, afs, archN>>

\* gateway.wait_for_completion(id, timeout=120 / 180) and `return result`
\* (sdk_client.py:208-214, 272-279).  The wait raises on timeout, and may
\* raise for a failed workflow; a terminal result that it hands back is
\* returned to the caller as it is, result["state"] is only logged.
GatewayWait ==
    /\ pc = "g_wait"
    /\ \/ /\ awaitRes \in {"pending", "rev"}
          /\ Raise
          /\ UNCHANGED raiseSame
       \/ /\ awaitRes \in {"ok", "rev"}
          /\ Return
          /\ UNCHANGED returnSame

\* ---- ledger read of the verifier (registry_reader.py:173-241) ----------
\* Index of the first slot whose value is > 0, 5 when all four are 0.
FirstNZ(v) ==
    IF \E i \in 1..4 : v[i] > 0
    THEN CHOOSE i \in 1..4 : v[i] > 0 /\ \A j \in 1..(i - 1) : v[j] = 0
    ELSE 5

\* any(verifierScores(v, w, idx) > 0 for idx in range(4)) inside try/except:
\* e = 0 when no lookup raises, else the slot whose lookup raises.  The scan
\* stops at the first non-zero slot; an exception before that is swallowed
\* and the submission counts as not scored.
AlreadyScored(v, e) == FirstNZ(v) <= 4 /\ (e = 0 \/ FirstNZ(v) < e)

\* get_unscored_submissions: workerList order, timestamp # 0, not already scored.
UnscoredSubmissions(u, errAt) ==
    SelectSeq([i \in 1..wl[u] |-> i],
              LAMBDA w : w \in wsub[u] /\ ~AlreadyScored(Slots(vscore[u][w]), errAt[w]))

\* ---- Auditor.audit (auditor.py:57-142) ----------------------------------
\* Values a strategy can hand back for one slot before the clamp.
RawValues == {-5, 0, 100, 150}

\* _heuristic_audit (auditor.py:118-142); confidence is taken in hundredths.
Min100(x) == IF x < 100 THEN x ELSE 100

\* Variant: the accuracy goes up by one once a call has been made.
HeuristicScoresRemembers(pkg) ==
    <<IF res # <<>> THEN pkg.confPct + 1 ELSE pkg.confPct,
      Min100(pkg.nSources * 15 + (pkg.avgSnippet \div 5)),
      Min100(pkg.nDomains * 25),
      Min100(pkg.reasoningLen \div 10)>>

HeuristicScores(pkg) ==
    <<pkg.confPct,
      Min100(pkg.nSources * 15 + (pkg.avgSnippet \div 5)),
      Min100(pkg.nDomains * 25),
      Min100(pkg.reasoningLen \div 10)>>

\* Variant: the clamp has no lower bound.
ClampScoreNoFloor(x) == IF x > 100 THEN 100 ELSE x

\* max(0, min(100, s)) (auditor.py:92).
ClampScore(x) == IF x > 100 THEN 100 ELSE IF x < 0 THEN 0 ELSE x

\* Auditor.audit (auditor.py:86-101): the model-backed scores when a key is
\* set (r.key) and the call and the parse succeed (r.llm, auditor.py:235-243),
\* the heuristic ones when the call fails (auditor.py:245-248) or no key is
\* set (auditor.py:89), then each slot clamped.
AuditScores(r) ==
    LET s == IF r.llm THEN r.llmScores ELSE HeuristicScores(r.pkg)
    IN [i \in 1..Len(s) |-> ClampScore(s[i])]

Packages ==
    [confPct : {-50, 50, 150}, nSources : {0, 8}, avgSnippet : {0, 400},
     nDomains : {0, 5}, reasoningLen : {0, 2000}]
NoPackage == [confPct |-> 50, nSources |-> 0, avgSnippet |-> 0, nDomains |-> 0, reasoningLen |-> 0]
NoRaw == [key |-> FALSE, llm |-> FALSE, llmScores |-> ZeroVec, pkg |-> NoPackage]

\* The strategy outputs the loop is run on: a model-backed one with a
\* negative slot and one that is in range.
LoopAuditInputs ==
    {[key |-> TRUE, llm |-> TRUE, llmScores |-> <<-5, 0, 0, 0>>, pkg |-> NoPackage],
     [key |-> TRUE, llm |-> TRUE, llmScores |-> <<0, 0, 0, 7>>, pkg |-> NoPackage]}

\* ---- verifier loop (verifier/main.py:141-207) --------------------------
\* Variant: after the last unit the next tick starts at once.
VerifierLoopSkipsSleep ==
    /\ pc = "loop" /\ role = "verifier"
    /\ IF idx > Len(studios) THEN pc' = "poll" ELSE pc' = "vdetails"
    /\ UNCHANGED <<envSame, loopVars, progVars, attVars, procHist>>

VerifierLoop ==
    /\ pc = "loop" /\ role = "verifier"
    /\ IF idx > Len(studios) THEN pc' = "sleep" ELSE pc' = "vdetails"
    /\ UNCHANGED <<envSame, loopVars, progVars, attVars, procHist>>

\* verifier/main.py:144-150: closed units and units without workers are skipped.
\* Variant: the worker count is not looked at.
VerifierDetailsNoWorkerCheck ==
    /\ pc = "vdetails"
    /\ \/ /\ RaiseUnit
          /\ UNCHANGED raiseSame
       \/ /\ CurU \in closed
          /\ pc' = "loop" /\ idx' = idx + 1
          /\ UNCHANGED <<envSame, studios, unscored, jdx, progVars, attVars, procHist>>
       \/ /\ CurU \notin closed
          /\ pc' = "unscored"
          /\ UNCHANGED <<envSame, loopVars, progVars, attVars, procHist>>

VerifierDetails ==
    /\ pc = "vdetails"
    /\ \/ /\ RaiseUnit
          /\ UNCHANGED raiseSame
       \/ /\ (CurU \in closed \/ wl[CurU] = 0)
          /\ pc' = "loop" /\ idx' = idx + 1
          /\ UNCHANGED <<envSame, studios, unscored, jdx, progVars, attVars, procHist>>
       \/ /\ ~(CurU \in closed \/ wl[CurU] = 0)
          /\ pc' = "unscored"
          /\ UNCHANGED <<envSame, loopVars, progVars, attVars, procHist>>

\* verifier/main.py:153-156.
VerifierUnscored ==
    /\ pc = "unscored"
    /\ \/ /\ RaiseUnit
          /\ UNCHANGED raiseSame
       \/ \E errAt \in [Workers -> 0..4] :
          /\ unscored' = UnscoredSubmissions(CurU, errAt)
          /\ jdx' = 1
          /\ pc' = "vloop"
          /\ snapRec' = {w \in Workers : vscore[CurU][w] # Unset}
          /\ UNCHANGED <<cfgVars, restVars, ledgerVars, ledgerHist, cntVars, subAtRestart,
                         studios, idx, progVars, attVars, procHist>>

\* Head of `for submission in unscored` (verifier/main.py:158-161).
\* Variant: no membership test on scored_pairs.
VerifierPairLoopNoDedup ==
    /\ pc = "vloop"
    /\ \/ /\ jdx > Len(unscored)
          /\ pc' = "loop" /\ idx' = idx + 1
          /\ snapRec' = {}
          /\ UNCHANGED <<jdx, attempts, steps>>
       \/ /\ jdx <= Len(unscored)
          /\ attempts < MaxAttempts
          /\ attempts' = attempts + 1
          /\ steps' = {}
          /\ pc' = "fetch"
          /\ UNCHANGED <<idx, jdx, snapRec>>
    /\ UNCHANGED <<cfgVars, restVars, ledgerVars, ledgerHist, restarts, subAtRestart, studios, unscored,
                   progVars, attVars, regConfirmed, returned, failed, afs, archN>>

VerifierPairLoop ==
    /\ pc = "vloop"
    /\ \/ /\ jdx > Len(unscored)
          /\ pc' = "loop" /\ idx' = idx + 1
          /\ snapRec' = {}
          /\ UNCHANGED <<jdx, attempts, steps>>
       \/ /\ jdx <= Len(unscored) /\ <<CurU, CurW>> \in scored_pairs
          /\ jdx' = jdx + 1
          /\ UNCHANGED <<pc, idx, attempts, steps, snapRec>>
       \/ /\ jdx <= Len(unscored) /\ <<CurU, CurW>> \notin scored_pairs
          /\ attempts < MaxAttempts
          /\ attempts' = attempts + 1
          /\ steps' = {}
          /\ pc' = "fetch"
          /\ UNCHANGED <<idx, jdx, snapRec>>
    /\ UNCHANGED <<cfgVars, restVars, ledgerVars, ledgerHist, restarts, subAtRestart, studios, unscored,
                   progVars, attVars, regConfirmed, returned, failed, afs, archN>>

\* 1. ArweaveClient.fetch_evidence (RuntimeError on a failed fetch).
VerifierFetch ==
    /\ pc = "fetch"
    /\ \/ /\ Raise
          /\ UNCHANGED raiseSame
       \/ /\ steps' = steps \cup {"fetch"}
          /\ pc' = "audit"
          /\ UNCHANGED <<stepSame, attVars>>

\* 2. Auditor.audit returns a clamped vector; 3. submit_scores is entered.
VerifierAudit ==
    /\ pc = "audit"
    /\ \E r \in LoopAuditInputs : scores' = AuditScores(r)
    /\ steps' = steps \cup {"audit"}
    /\ pc' = EntryPc
    /\ UNCHANGED <<stepSame, qEmpty, cid, awaitTx, awaitRes>>

\* ---- specification -----------------------------------------------------
Next ==
    \/ Start \/ IdLookup \/ IdSend \/ IdWait \/ PollOk \/ PollEmpty \/ PollRaise \/ Sleep \/ Restart
    \/ Shutdown
    \/ WorkerLoop \/ WorkerDetails \/ WorkerResearch \/ WorkerBuild \/ WorkerArchive
    \/ VerifierLoop \/ VerifierDetails \/ VerifierUnscored \/ VerifierPairLoop
    \/ VerifierFetch \/ VerifierAudit
    \/ DirectCheck \/ DirectRegSend \/ DirectRegWait \/ DirectMainSend \/ DirectMainWait
    \/ GatewayRegister \/ GatewaySubmit \/ GatewayWait
    \/ LedgerExec \/ CloseEpoch \/ Settle \/ OtherRegister \/ OtherSubmit

Spec == Init /\ [][Next]_vars

\* ---- single calls of the reader and of the auditor -----------------------
\* The reads of RegistryReader and Auditor.audit as functions of the ledger
\* state, of the failure of the underlying RPC call (fault: none, a
\* transport error, a logical / decode error) and of the raw strategy output.
\* ConnectionError, TimeoutError and OSError are the transport failures, any
\* other exception ("logic") is a logical / decode failure.
TransportFaults == {"connection", "timeout", "os"}
FaultKinds == {"none", "logic"} \cup TransportFaults

\* get_active_studios (registry_reader.py:101-112): ConnectionError,
\* TimeoutError and OSError are re-raised, any other exception gives [].
\* Variant: every failure gives the empty list.
ActiveStudiosSwallowsAll(f) ==
    IF f # "none" THEN [out |-> "empty", val |-> <<>>]
    ELSE [out |-> "value", val |-> SeqOfSet(Units \ settled)]

ActiveStudios(f) ==
    IF f \in TransportFaults THEN [out |-> "raised", val |-> <<>>]
    ELSE IF f = "logic" THEN [out |-> "empty", val |-> <<>>]
    ELSE [out |-> "value", val |-> SeqOfSet(Units \ settled)]

\* get_studio_details (registry_reader.py:131-171) has no handler.
StudioDetails(f) == IF f = "none" THEN "value" ELSE "raised"

\* get_unscored_submissions (registry_reader.py:195-241): getWorkerCount,
\* workerList and submissions are called without a handler; the slot
\* lookups are inside `try ... except Exception: pass`.  e[w] is the slot of
\* worker w whose lookup fails (0 = none); a failure with no such slot is
\* one of the calls outside the handler.
UnscoredCall(u, f, e) ==
    IF f # "none" /\ \A w \in Workers : e[w] = 0
    THEN [out |-> "raised", val |-> <<>>]
    ELSE [out |-> "value", val |-> UnscoredSubmissions(u, e)]

\* ---- Researcher (researcher.py:194-325) -----------------------------------
\* max(0, min(outcome_index, len(options) - 1)) (researcher.py:305).
ClampOutcome(x, n) ==
    LET m == IF x < n - 1 THEN x ELSE n - 1
    IN IF m > 0 THEN m ELSE 0

\* max(0.0, min(confidence, 1.0)) (researcher.py:306), in hundredths.
ClampConfidence(c) == IF c > 100 THEN 100 ELSE IF c < 0 THEN 0 ELSE c

\* _call_openai (researcher.py:276-325): the parsed and clamped answer, or,
\* when the call or the parse raises (r.fails), the result of the handler.
CallOpenai(r) ==
    IF r.fails
    THEN [outcome_index |-> 0, confPct |-> 30, reasoning |-> "LLM call failed"]
    ELSE [outcome_index |-> ClampOutcome(r.outcome, r.nOptions),
          confPct |-> ClampConfidence(r.confPct),
          reasoning |-> "llm"]

\* _llm_analyze (researcher.py:214-231): the model-backed answer when a key
\* is set, else the placeholder analysis.
LlmAnalyze(r) ==
    IF r.key THEN CallOpenai(r)
    ELSE [outcome_index |-> 0, confPct |-> 50, reasoning |-> "Placeholder analysis"]

\* What the model answers (outcome_index, confidence in hundredths), whether
\* the call fails, whether a key is set, and the number of options.
ResearchInputs ==
    [key : BOOLEAN, fails : BOOLEAN, outcome : {-2, 0, 1, 5}, confPct : {-50, 30, 150},
     nOptions : 0..3]

\* research (researcher.py:88-134): a forced outcome that parses and is an
\* index of the option list is returned as it is; one that does not parse
\* or is out of range is logged and the normal path is taken.
Research(r, n) ==
    IF r.forcedSet /\ r.forcedParses /\ 0 <= r.forcedVal /\ r.forcedVal < n
    THEN [outcome_index |-> r.forcedVal, confPct |-> 99, reasoning |-> "Forced outcome"]
    ELSE LlmAnalyze([key |-> r.key, fails |-> r.fails, outcome |-> r.outcome,
                     confPct |-> r.confPct, nOptions |-> n])

\* ---- EvidenceBuilder.build (evidence.py:44-113) ---------------------------
\* A confidence is held in units of 0.00001, so that the fifth decimal
\* place exists and the rounding to four places does something.
ConfUnit == 100000

\* Variant: the confidence is stored as given.
Round4Keeps(c) == c

\* round(confidence, 4) (evidence.py:100): the nearest multiple of 0.0001,
\* a tie going to the even one.
Round4(c) ==
    LET lo == (c \div 10) * 10
        r  == c % 10
    IN IF r < 5 THEN lo
       ELSE IF r > 5 THEN lo + 10
       ELSE IF (lo \div 10) % 2 = 0 THEN lo ELSE lo + 10

SourceKeys == {"url", "title", "snippet"}

\* {"url": s.get("url", ""), ...} (evidence.py:87-94).
NormaliseSource(src) == [k \in SourceKeys |-> IF k \in DOMAIN src THEN src[k] ELSE ""]

\* build (evidence.py:78-113): the three checks, then the package.
Build(b) ==
    IF b.question = "" \/ b.outcome < 0 \/ ~(0 <= b.confidence /\ b.confidence <= ConfUnit)
    THEN [out |-> "raised", val |-> <<>>]
    ELSE [out |-> "value",
          val |-> [version |-> "1.0.0", question |-> b.question, outcome |-> b.outcome,
                   confidence |-> Round4(b.confidence),
                   sources |-> [i \in 1..Len(b.sources) |-> NormaliseSource(b.sources[i])],
                   reasoning |-> b.reasoning]]

\* Source dictionaries with no key, some keys, the three keys, a further key.
SourceShapes ==
    {<<>>, [url |-> "u"], [url |-> "u", title |-> "t", snippet |-> "s"],
     [url |-> "u", title |-> "t", snippet |-> "s", extra |-> "x"]}
MaxSources == 2
SourceLists == UNION {[1..n -> SourceShapes] : n \in 0..MaxSources}

BuildInputs ==
    [question : {"", "q"}, outcome : {-1, 0, 2},
     confidence : {-1, 0, 12344, 12345, 12346, 12355, 100000, 100001},
     sources : SourceLists, reasoning : {"r"}]

\* ---- ArweaveClient (arweave_client.py:73-205) ------------------------------
\* Evidence packages by their question; the reasoning of the stub names the
\* reference it was asked for (cidInText).
NumPackages == 2
StoredPackages == {[question |-> q, cidInText |-> 0] : q \in 1..NumPackages}
NotStored == [question |-> 0, cidInText |-> 0]

\* References: 1..NumPackages are the 64-character lowercase hexadecimal
\* SHA-256 digests of the stored packages, the ones above are 43-character
\* transaction ids of the bundler.
NumTxIds == 1
HexRefs == 1..NumPackages
TxRefs == (NumPackages + 1)..(NumPackages + NumTxIds)
Refs == HexRefs \cup TxRefs

\* The empty string, which data.get("id", data.get("txId", "")) gives for a
\* reply of the bundler that has neither key (arweave_client.py:129).
EmptyRef == 0

\* hashlib.sha256(payload_bytes).hexdigest() (arweave_client.py:98).
Sha256Hex(pk) == pk.question

\* len(cid) == 64 and all(c in "0123456789abcdef" for c in cid)
\* (arweave_client.py:170).
IsStubShape(ref) == ref \in HexRefs

\* The canned package (arweave_client.py:172-180).
StubPackage(ref) == [question |-> -1, cidInText |-> ref]

\* Variant: every reference is fetched from the gateway.
FetchEvidenceNoStub(ref, net) ==
    IF net[ref] = NotStored
    THEN [ref |-> ref, out |-> "raised", val |-> NotStored, netCall |-> TRUE]
    ELSE [ref |-> ref, out |-> "value", val |-> net[ref], netCall |-> TRUE]

\* fetch_evidence (arweave_client.py:168-205); net is what the gateway
\* serves under each reference.
FetchEvidence(ref, net) ==
    IF IsStubShape(ref)
    THEN [ref |-> ref, out |-> "value", val |-> StubPackage(ref), netCall |-> FALSE]
    ELSE IF net[ref] = NotStored
    THEN [ref |-> ref, out |-> "raised", val |-> NotStored, netCall |-> TRUE]
    ELSE [ref |-> ref, out |-> "value", val |-> net[ref], netCall |-> TRUE]

\* A store followed by a fetch (store TRUE) or a fetch of a given reference,
\* with or without a wallet, over every content of the gateway.
ArweaveInputs ==
    [store : BOOLEAN, wallet : BOOLEAN, pkg : StoredPackages, ref : Refs,
     net : [Refs -> StoredPackages \cup {NotStored}]]

\* min(getOptionCount(), 20) (registry_reader.py:147).
OptionCap == 20

\* One pass of the worker over an open unit: the question and the option
\* count of the ledger, the environment's forced outcome (set or not, an
\* integer or not, its value), the model's answer, and what the archival
\* does (no wallet, or the bundler's reply with or without an id, or a
\* failure of the upload).
PipeInputs ==
    [question : {"", "q"}, optionCount : {0, 2, 25},
     forcedSet : BOOLEAN, forcedParses : BOOLEAN, forcedVal : {-1, 1, 30},
     key : BOOLEAN, fails : BOOLEAN, outcome : {-2, 0, 1, 30}, confPct : {30, 150},
     wallet : BOOLEAN, reply : {"id", "noid", "failed"}]

NoResult == [outcome_index |-> -1, confPct |-> 0, reasoning |-> ""]
NoCall == [outcome |-> -1, evidence_cid |-> EmptyRef]

\* Recorded vectors the reads are tried on.
RecordedVectors == {Unset, ZeroVec, <<0, 0, 0, 7>>, <<9, 0, 0, 0>>}

\* No ledger state and no failure of a read is part of the call.
NoReadInput ==
    /\ settled = {} /\ fault = "none" /\ studios = <<1>>
    /\ wl = [u \in Units |-> 0] /\ wsub = [u \in Units |-> {}]
    /\ vscore = [u \in Units |-> [w \in Workers |-> Unset]]
    /\ slotErr = [w \in Workers |-> 0]

InitCalls ==
    /\ mode = "local"
    /\ closed = {} /\ reg = {} /\ inflight = {}
    /\ sub = [u \in Units |-> 0]
    /\ idx = 1 /\ unscored = <<>> /\ jdx = 1
    /\ participated = {} /\ scored_pairs = {}
    /\ qEmpty = FALSE /\ cid = 0 /\ scores = ZeroVec
    /\ awaitTx = NoTx /\ awaitRes = "none"
    /\ attempts = 0 /\ restarts = 0
    /\ workOK = [u \in Units |-> 0] /\ regOK = [u \in Units |-> 0]
    /\ regReq = [u \in Units |-> 0]
    /\ regConfirmed = {} /\ returned = {} /\ failed = {} /\ steps = {} /\ afs = {}
    /\ archN = [u \in Units |-> 0]
    /\ subAtRestart = {} /\ snapRec = {}
    /\ idChain = 0 /\ idCache = 0 /\ agent_id = 0
    /\ shutdown = FALSE /\ txCount = 0
    /\ out = "none" /\ res = <<>>
    /\ \/ /\ pc = "rd_active"
          /\ settled \in SUBSET Units /\ fault \in FaultKinds
          /\ studios = <<>>
          /\ wl = [u \in Units |-> 0] /\ wsub = [u \in Units |-> {}]
          /\ vscore = [u \in Units |-> [w \in Workers |-> Unset]]
          /\ slotErr = [w \in Workers |-> 0] /\ raw = NoRaw
       \/ /\ pc = "rd_details"
          /\ settled = {} /\ fault \in FaultKinds
          /\ studios = <<1>>
          /\ wl \in [Units -> 0..1] /\ wsub = [u \in Units |-> {}]
          /\ vscore = [u \in Units |-> [w \in Workers |-> Unset]]
          /\ slotErr = [w \in Workers |-> 0] /\ raw = NoRaw
       \/ /\ pc = "rd_unscored"
          /\ settled = {} /\ studios = <<1>>
          /\ \E n \in 0..NumWorkers, S \in SUBSET Workers, v \in [Workers -> RecordedVectors] :
                /\ S \subseteq 1..n
                /\ \A w \in Workers \ S : v[w] = Unset
                /\ wl = [u \in Units |-> IF u = 1 THEN n ELSE 0]
                /\ wsub = [u \in Units |-> IF u = 1 THEN S ELSE {}]
                /\ vscore = [u \in Units |-> IF u = 1 THEN v ELSE [w \in Workers |-> Unset]]
          /\ fault \in FaultKinds
          /\ slotErr \in [Workers -> 0..4]
          /\ (fault = "none") => \A w \in Workers : slotErr[w] = 0
          /\ raw = NoRaw
       \/ /\ pc = "audit_call"
          /\ settled = {} /\ fault = "none" /\ studios = <<1>>
          /\ wl = [u \in Units |-> 0] /\ wsub = [u \in Units |-> {}]
          /\ vscore = [u \in Units |-> [w \in Workers |-> Unset]]
          /\ slotErr = [w \in Workers |-> 0]
          /\ \/ \E v \in [1..4 -> RawValues] :
                   raw = [key |-> TRUE, llm |-> TRUE, llmScores |-> v, pkg |-> NoPackage]
             \/ \E k \in Packages, c \in BOOLEAN :
                   raw = [key |-> c, llm |-> FALSE, llmScores |-> ZeroVec, pkg |-> k]
       \/ /\ pc = "build_call"
          /\ NoReadInput
          /\ raw \in BuildInputs
       \/ /\ pc \in {"store_call", "fetch_call"}
          /\ NoReadInput
          /\ raw \in ArweaveInputs
          /\ raw.store = (pc = "store_call")
       \/ /\ pc = "heur_call"
          /\ NoReadInput
          /\ \E a \in Packages, b \in Packages, q \in {<<1, 1>>, <<1, 2>>} :
                raw = [first |-> a, second |-> b, question |-> q]
       \/ /\ pc = "research_call"
          /\ NoReadInput
          /\ raw \in ResearchInputs
       \/ /\ pc = "pipe_details"
          /\ NoReadInput
          /\ raw \in PipeInputs
    /\ role = (IF pc = "pipe_details" THEN "worker" ELSE "verifier")

callSame == <<cfgVars, idVars, shutdown, txCount, fault, slotErr, raw, ledgerVars, ledgerHist,
              cntVars, readHist, idx, jdx, progVars, qEmpty, cid, awaitTx, awaitRes, procHist>>

ReadActive ==
    /\ pc = "rd_active"
    /\ out' = ActiveStudios(fault).out
    /\ studios' = ActiveStudios(fault).val
    /\ pc' = "rd_active_done"
    /\ UNCHANGED <<callSame, res, unscored, scores>>

ReadDetails ==
    /\ pc = "rd_details"
    /\ out' = StudioDetails(fault)
    /\ pc' = "rd_details_done"
    /\ UNCHANGED <<callSame, res, studios, unscored, scores>>

ReadUnscored ==
    /\ pc = "rd_unscored"
    /\ out' = UnscoredCall(CurU, fault, slotErr).out
    /\ unscored' = UnscoredCall(CurU, fault, slotErr).val
    /\ pc' = "rd_unscored_done"
    /\ UNCHANGED <<callSame, res, studios, scores>>

AuditCall ==
    /\ pc = "audit_call"
    /\ scores' = AuditScores(raw)
    /\ out' = "value"
    /\ pc' = "audit_done"
    /\ UNCHANGED <<callSame, res, studios, unscored>>

ResearchCall ==
    /\ pc = "research_call"
    /\ res' = LlmAnalyze(raw)
    /\ out' = "value"
    /\ pc' = "research_done"
    /\ UNCHANGED <<callSame, studios, unscored, scores>>

BuildCall ==
    /\ pc = "build_call"
    /\ out' = Build(raw).out
    /\ res' = Build(raw).val
    /\ pc' = "build_done"
    /\ UNCHANGED <<callSame, studios, unscored, scores>>

\* upload_evidence (arweave_client.py:90-105, 119-144): without a wallet
\* the digest of the payload is returned and nothing is sent; with one the
\* bundler stores the payload and names its transaction id, or the upload
\* raises.
StoreCall ==
    /\ pc = "store_call"
    /\ \/ /\ ~raw.wallet
          /\ res' = [ref |-> Sha256Hex(raw.pkg), out |-> "value", val |-> raw.pkg,
                     netCall |-> FALSE]
          /\ UNCHANGED raw
       \/ /\ raw.wallet
          /\ \E t \in TxRefs :
                /\ res' = [ref |-> t, out |-> "value", val |-> raw.pkg, netCall |-> TRUE]
                /\ raw' = [raw EXCEPT !.net = [raw.net EXCEPT ![t] = raw.pkg]]
       \/ /\ raw.wallet
          /\ res' = [ref |-> 0, out |-> "raised", val |-> NotStored, netCall |-> TRUE]
          /\ UNCHANGED raw
    /\ out' = res'.out
    /\ pc' = IF res'.out = "raised" THEN "store_failed" ELSE "fetch_stored"
    /\ UNCHANGED <<cfgVars, idVars, shutdown, txCount, fault, slotErr, ledgerVars, ledgerHist,
                   cntVars, readHist, idx, jdx, progVars, qEmpty, cid, awaitTx, awaitRes,
                   procHist, studios, unscored, scores>>

\* fetch_evidence of the reference the store returned, or of a given one.
FetchCall ==
    /\ pc \in {"fetch_stored", "fetch_call"}
    /\ res' = FetchEvidence(IF pc = "fetch_stored" THEN res.ref ELSE raw.ref, raw.net)
    /\ out' = res'.out
    /\ pc' = "fetch_done"
    /\ UNCHANGED <<callSame, studios, unscored, scores>>

\* Two calls of _heuristic_audit on one Auditor, the second after the first,
\* for questions raw.question[1] and raw.question[2].
HeuristicFirst ==
    /\ pc = "heur_call"
    /\ res' = [r1 |-> HeuristicScores(raw.first), r2 |-> <<>>]
    /\ out' = "value"
    /\ pc' = "heur_again"
    /\ UNCHANGED <<callSame, studios, unscored, scores>>

HeuristicSecond ==
    /\ pc = "heur_again"
    /\ res' = [res EXCEPT !.r2 = HeuristicScores(raw.second)]
    /\ pc' = "heur_done"
    /\ UNCHANGED <<callSame, out, studios, unscored, scores>>

\* ---- the worker's pipeline with its data (worker/main.py:152-179) ---------
\* get_studio_details: the question and the options read, at most 20.
PipeDetails ==
    /\ pc = "pipe_details"
    /\ res' = [question |-> raw.question,
               nOptions |-> IF raw.optionCount < OptionCap THEN raw.optionCount ELSE OptionCap,
               result |-> NoResult, pkg |-> <<>>, ref |-> EmptyRef, call |-> NoCall]
    /\ out' = "value"
    /\ pc' = "pipe_research"
    /\ UNCHANGED <<callSame, studios, unscored, scores>>

\* result = await researcher.research(details.question, details.options)
PipeResearch ==
    /\ pc = "pipe_research"
    /\ res' = [res EXCEPT !.result = Research(raw, res.nOptions)]
    /\ pc' = "pipe_build"
    /\ UNCHANGED <<callSame, out, studios, unscored, scores>>

\* evidence_builder.build(question, outcome=result.outcome_index,
\* confidence=result.confidence, ...); a ValueError ends the pass.
PipeBuildInput ==
    [question |-> res.question, outcome |-> res.result.outcome_index,
     confidence |-> res.result.confPct * (ConfUnit \div 100),
     sources |-> <<>>, reasoning |-> res.result.reasoning]

PipeBuild ==
    /\ pc = "pipe_build"
    /\ out' = Build(PipeBuildInput).out
    /\ res' = [res EXCEPT !.pkg = Build(PipeBuildInput).val]
    /\ pc' = IF out' = "raised" THEN "pipe_raised" ELSE "pipe_store"
    /\ UNCHANGED <<callSame, studios, unscored, scores>>

\* upload_evidence (arweave_client.py:90-105, 119-144): the references the
\* call can return, or the failure of the upload.
UploadEvidence(wallet, reply) ==
    IF ~wallet THEN [out |-> "value", refs |-> HexRefs]
    ELSE IF reply = "id" THEN [out |-> "value", refs |-> TxRefs]
    ELSE IF reply = "noid" THEN [out |-> "value", refs |-> {EmptyRef}]
    ELSE [out |-> "raised", refs |-> {EmptyRef}]

\* evidence_cid = await arweave.upload_evidence(evidence_package)
PipeStore ==
    /\ pc = "pipe_store"
    /\ out' = UploadEvidence(raw.wallet, raw.reply).out
    /\ \E t \in UploadEvidence(raw.wallet, raw.reply).refs : res' = [res EXCEPT !.ref = t]
    /\ pc' = IF out' = "raised" THEN "pipe_raised" ELSE "pipe_submit"
    /\ UNCHANGED <<callSame, studios, unscored, scores>>

\* sdk_client.submit_work(studio_address, outcome=result.outcome_index,
\* evidence_cid=evidence_cid): the arguments of the call.
PipeSubmit ==
    /\ pc = "pipe_submit"
    /\ res' = [res EXCEPT !.call = [outcome |-> res.result.outcome_index,
                                    evidence_cid |-> res.ref]]
    /\ pc' = "pipe_submitted"
    /\ UNCHANGED <<callSame, out, studios, unscored, scores>>

NextCalls ==
    \/ ReadActive \/ ReadDetails \/ ReadUnscored \/ AuditCall \/ ResearchCall
    \/ BuildCall \/ StoreCall \/ FetchCall \/ HeuristicFirst \/ HeuristicSecond
    \/ PipeDetails \/ PipeResearch \/ PipeBuild \/ PipeStore \/ PipeSubmit

SpecCalls == InitCalls /\ [][NextCalls]_vars

\* ---- the loops over unboundedly many ticks ---------------------------------
\* The poll loops with each pipeline as one step and without the counters of
\* the attempts, so that a tick can follow a tick for ever.  raw names the
\* units (their reads for the verifier, their whole pipeline for the worker)
\* and the pairs whose pipeline fails on every attempt; every other
\* pipeline succeeds.
LiveScenarios ==
    [badUnits : {{}, {1}, {2}}, badPairs : {{}, {<<1, 1>>}, {<<2, 1>>}}]

InitLive ==
    /\ role \in {"worker", "verifier"}
    /\ mode \in {"local", "gateway"}
    /\ settled = {} /\ closed = {} /\ reg = {}
    /\ sub = [u \in Units |-> 0]
    /\ IF role = "worker"
       THEN wl = [u \in Units |-> 0] /\ wsub = [u \in Units |-> {}]
       ELSE wl = [u \in Units |-> NumWorkers] /\ wsub \in [Units -> {{1}, Workers}]
    /\ vscore = [u \in Units |-> [w \in Workers |-> Unset]]
    /\ inflight = {}
    /\ pc = "start"
    /\ studios = <<>> /\ idx = 1 /\ unscored = <<>> /\ jdx = 1
    /\ participated = {} /\ scored_pairs = {}
    /\ qEmpty = FALSE /\ cid = 0 /\ scores = ZeroVec
    /\ awaitTx = NoTx /\ awaitRes = "none"
    /\ attempts = 0 /\ restarts = 0
    /\ workOK = [u \in Units |-> 0] /\ regOK = [u \in Units |-> 0]
    /\ regReq = [u \in Units |-> 0]
    /\ regConfirmed = {} /\ returned = {} /\ failed = {} /\ steps = {} /\ afs = {}
    /\ archN = [u \in Units |-> 0]
    /\ subAtRestart = {} /\ snapRec = {}
    /\ \E p \in (IF mode = "gateway" THEN {<<0, 0>>, <<1, 0>>, <<1, 1>>} ELSE {<<0, 0>>}) :
          idChain = p[1] /\ idCache = p[2]
    /\ agent_id = -1
    /\ shutdown = FALSE /\ txCount = 0
    /\ fault = "none" /\ slotErr = [w \in Workers |-> 0] /\ out = "none" /\ res = <<>>
    /\ raw \in LiveScenarios
    /\ role = "worker" => raw.badPairs = {}

\* Head of `for studio_address in studios` (worker/main.py:144-148).
WorkerLoopLive ==
    /\ pc = "loop" /\ role = "worker"
    /\ \/ /\ idx > Len(studios)
          /\ pc' = "sleep"
          /\ UNCHANGED idx
       \/ /\ idx <= Len(studios) /\ CurU \in participated
          /\ idx' = idx + 1
          /\ UNCHANGED pc
       \/ /\ idx <= Len(studios) /\ CurU \notin participated
          /\ pc' = "details"
          /\ UNCHANGED idx
    /\ UNCHANGED <<envSame, studios, unscored, jdx, progVars, attVars, procHist>>

\* The body of the try (worker/main.py:150-191): a step of the pipeline
\* raises and the handler logs it, or the unit is read as closed and added,
\* or submit_work returns and the unit is added.
WorkerPipelineLive ==
    /\ pc = "details" /\ role = "worker"
    /\ IF CurU \in raw.badUnits
       THEN /\ Raise
            /\ UNCHANGED raiseSame
       ELSE IF CurU \in closed
       THEN /\ participated' = participated \cup {CurU}
            /\ failed' = failed \ {CurU}
            /\ afs' = afs \ {CurU}
            /\ pc' = "loop" /\ idx' = idx + 1
            /\ UNCHANGED <<envSame, studios, unscored, jdx, scored_pairs, attVars,
                           regConfirmed, returned, steps, archN>>
       ELSE /\ Return
            /\ UNCHANGED returnSame

\* The reads of a unit (verifier/main.py:141-156, 206-207): one of them
\* raises, or the unit is closed or has no worker, or its unscored
\* submissions are listed.
VerifierReadsLive ==
    /\ pc = "vdetails"
    /\ IF CurU \in raw.badUnits
       THEN /\ RaiseUnit
            /\ UNCHANGED raiseSame
       ELSE IF CurU \in closed \/ wl[CurU] = 0
       THEN /\ pc' = "loop" /\ idx' = idx + 1
            /\ UNCHANGED <<envSame, studios, unscored, jdx, progVars, attVars, procHist>>
       ELSE /\ unscored' = UnscoredSubmissions(CurU, [w \in Workers |-> 0])
            /\ jdx' = 1
            /\ pc' = "vloop"
            /\ UNCHANGED <<envSame, studios, idx, progVars, attVars, procHist>>

\* Head of `for submission in unscored` (verifier/main.py:158-161).
VerifierPairLoopLive ==
    /\ pc = "vloop"
    /\ \/ /\ jdx > Len(unscored)
          /\ pc' = "loop" /\ idx' = idx + 1
          /\ UNCHANGED jdx
       \/ /\ jdx <= Len(unscored) /\ <<CurU, CurW>> \in scored_pairs
          /\ jdx' = jdx + 1
          /\ UNCHANGED <<pc, idx>>
       \/ /\ jdx <= Len(unscored) /\ <<CurU, CurW>> \notin scored_pairs
          /\ pc' = "fetch"
          /\ UNCHANGED <<idx, jdx>>
    /\ UNCHANGED <<envSame, studios, unscored, progVars, attVars, procHist>>

\* The body of the inner try (verifier/main.py:163-204): a step raises and
\* the handler logs it, or submit_scores returns and the pair is added.
VerifierPipelineLive ==
    /\ pc = "fetch"
    /\ IF <<CurU, CurW>> \in raw.badPairs
       THEN /\ Raise
            /\ UNCHANGED raiseSame
       ELSE /\ Return
            /\ UNCHANGED returnSame

\* The steps of the process itself.
ProcLive ==
    \/ Start \/ IdLookup \/ IdSend \/ IdWait \/ PollOk \/ PollEmpty \/ PollRaise \/ Sleep
    \/ WorkerLoopLive \/ WorkerPipelineLive
    \/ VerifierLoop \/ VerifierReadsLive \/ VerifierPairLoopLive \/ VerifierPipelineLive

NextLive ==
    \/ Start \/ IdLookup \/ IdSend \/ IdWait \/ PollOk \/ PollEmpty \/ PollRaise \/ Sleep
    \/ WorkerLoopLive \/ WorkerPipelineLive
    \/ VerifierLoop \/ VerifierReadsLive \/ VerifierPairLoopLive \/ VerifierPipelineLive
    \/ LedgerExec \/ CloseEpoch \/ Settle \/ Shutdown

\* The event loop runs the one task of run() whenever it can take a step and
\* every await returns or raises (weak fairness of the process's steps); the
\* list of active units is read without an error again and again (strong
\* fairness of PollOk).  Nothing is assumed of the chain, of the epochs or of
\* a shutdown signal.
SpecLive == InitLive /\ [][NextLive]_vars /\ WF_vars(ProcLive) /\ SF_vars(PollOk)

\* ---- claims ------------------------------------------------------------
VerifierPairPcs == {"fetch", "audit"} \cup BackendPcs
WorkerUnitPcs == {"details", "research", "build", "archive"} \cup BackendPcs
VerifierUnitPcs == {"vdetails", "unscored"}
\* The process is not in its loop: before auto_register returned, after run()
\* ended with an error, after the loop task was cancelled.
OutsideLoopPcs == {"start", "id_lookup", "id_send", "id_wait", "dead", "stopped"}

\* C1: for every unit, at most one work-submission write of this worker
\* succeeds on the ledger, whatever steps fail and whenever (also after the
\* transaction or workflow was already sent).
C1_AtMostOneWorkWrite == \A u \in Units : workOK[u] <= 1

\* C1 witness: one write for the unit succeeded, the call that sent it failed
\* (the unit is not in participated), and a later write for the same unit was
\* executed and refused.
C1_Witness ==
    /\ role = "worker" /\ restarts = 0
    /\ pc \in {"d_main_wait", "g_wait"}
    /\ awaitRes = "rev"
    /\ workOK[CurU] = 1 /\ sub[CurU] # cid

\* C2: within one worker lifetime, submit_work is not called for a unit for
\* which an earlier submit_work call returned normally.
C2_NoSecondSubmitWork ==
    (role = "worker" /\ pc \in BackendPcs) => <<CurU, 0>> \notin returned

\* C2 witness: a later tick visits a unit whose submit_work call returned.
C2_Witness ==
    /\ role = "worker" /\ pc = "loop" /\ attempts < MaxAttempts
    /\ idx <= Len(studios) /\ <<CurU, 0>> \in returned

\* C3: within one verifier lifetime, a pair for which submit_scores returned
\* normally is neither audited nor passed to submit_scores again, also when
\* the ledger still lists it as unscored.
C3_NoSecondSubmitScores ==
    (role = "verifier" /\ pc \in VerifierPairPcs) => <<CurU, CurW>> \notin returned

\* C3 witness: the unscored read of a later tick lists a pair whose
\* submit_scores call returned.
C3_Witness ==
    /\ role = "verifier" /\ pc = "vloop" /\ attempts < MaxAttempts
    /\ jdx <= Len(unscored) /\ <<CurU, CurW>> \in returned

\* C4: after a restart the worker does not call submit_work for
\* a unit for which this wallet's submission was on the ledger before the
\* restart.
C4_NoResubmitAfterRestart ==
    (role = "worker" /\ restarts > 0 /\ pc \in BackendPcs) => CurU \notin subAtRestart

\* C5: a pair for which a score vector of this verifier is
\* recorded on the ledger, whatever its values, is not audited and not
\* passed to submit_scores after a restart.
C5_RecordedNeverAudited ==
    (role = "verifier" /\ restarts > 0 /\ pc \in VerifierPairPcs) => CurW \notin snapRec

\* C6: a unit whose pipeline raised is not in participated, and the loop
\* head of a later tick that finds it listed starts its pipeline again at
\* the details read.
C6_FailedUnitRetriedFromStart ==
    /\ [](role = "worker" => failed \cap participated = {})
    /\ [][(role = "worker" /\ pc = "loop" /\ idx <= Len(studios) /\ CurU \in failed
           /\ (pc' # pc \/ idx' # idx))
          => ((pc' = "details" /\ idx' = idx /\ steps' = {}) \/ pc' = "start")]_vars

\* C6 witness: the pipeline of a unit that raised earlier runs again.
C6_Witness == role = "worker" /\ pc = "details" /\ CurU \in failed

\* C7: after archival succeeded and submit_work failed, the unit is not in
\* participated, and the next submit_work call for it follows a new
\* research, build and archival of the same attempt and carries the new
\* reference.
C7_FullRerunAfterSubmitFailure ==
    /\ afs \cap participated = {}
    /\ (role = "worker" /\ pc \in BackendPcs /\ CurU \in afs)
       => /\ {"details", "research", "build", "archive"} \subseteq steps
          /\ archN[CurU] >= 2
          /\ cid = attempts

\* C7 witness: submit_work is called again for such a unit.
C7_Witness == role = "worker" /\ pc \in BackendPcs /\ CurU \in afs

\* C8: in the delegating backend a submit call returns normally
\* only for a workflow that reached a successful terminal state.
C8_ReturnOnlyOnSuccess ==
    [][(mode = "gateway" /\ pc = "g_wait" /\ pc' # pc /\ Key \in returned') => awaitRes = "ok"]_vars

\* C9: in the direct backend a call starts with the read of the
\* registration flag; the registration transaction is sent exactly when the
\* flag is unset; the main transaction is sent only after the flag was read
\* set or the registration receipt had status success; a registration or
\* main receipt without success ends the call with an error.
C9_DirectCallOrder ==
    [][mode = "local" =>
        /\ (pc \notin DirectPcs /\ pc' \in DirectPcs) => pc' = "d_check"
        /\ (pc = "d_check" /\ pc' \in DirectPcs /\ pc' # pc)
           => pc' = (IF CurU \in reg THEN "d_main_send" ELSE "d_reg_send")
        /\ (pc' = "d_reg_send" /\ pc' # pc) => pc = "d_check"
        /\ (pc' = "d_main_send" /\ pc' # pc)
           => (pc = "d_check" \/ (pc = "d_reg_wait" /\ awaitRes = "ok"))
        /\ (pc = "d_reg_wait" /\ awaitRes = "rev" /\ pc' # pc) => pc' \notin DirectPcs
        /\ (pc = "d_main_wait" /\ pc' # pc /\ Key \in returned') => awaitRes = "ok"]_vars

\* C9 witness: the registration receipt of the call has status 0.
C9_Witness == mode = "local" /\ pc = "d_reg_wait" /\ awaitRes = "rev"

C11_IdentityIdempotent ==
    [][/\ (pc = "start" /\ pc' # pc /\ mode = "local")
          => (pc' = "poll" /\ agent_id' = 0 /\ inflight' = inflight)
       /\ (pc = "start" /\ pc' # pc /\ mode = "gateway" /\ idCache # 0)
          => (pc' = "poll" /\ agent_id' = idCache /\ inflight' = inflight)
       /\ (pc = "id_lookup" /\ pc' \notin {pc, "start"} /\ idChain > 0)
          => /\ pc' \in {"poll", "dead"}
             /\ inflight' = inflight
             /\ pc' = "poll" => agent_id' \in 1..idChain
       /\ (\E tx \in inflight' \ inflight : tx.kind = "identity")
          => (pc = "id_send" /\ idCache = 0)]_vars

\* C11 witness: a later process of a wallet whose identity was registered
\* by an earlier process has its identity back and nothing is in flight.
C11_Witness ==
    /\ mode = "gateway" /\ restarts > 0 /\ pc = "poll"
    /\ agent_id = 1 /\ idChain = 1 /\ idCache = 1
    /\ inflight = {}
    /\ \E u \in Units : regOK[u] > 0

\* C12: a failure in the pipeline of a unit (worker) or of a pair (verifier),
\* or in the unit-level reads of the verifier, leads to the head of the
\* enclosing for loop with the next element of the same list; a loop head
\* ends its list only after the last element.
C12_FailureDoesNotAbortTick ==
    [][/\ (role = "worker" /\ pc \in WorkerUnitPcs /\ pc' \notin WorkerUnitPcs \cup OutsideLoopPcs
           /\ CurU \in failed')
          => (pc' = "loop" /\ idx' = idx + 1 /\ studios' = studios)
       /\ (role = "verifier" /\ pc \in VerifierPairPcs
           /\ pc' \notin VerifierPairPcs \cup OutsideLoopPcs /\ <<CurU, CurW>> \notin returned')
          => (pc' = "vloop" /\ jdx' = jdx + 1 /\ unscored' = unscored
              /\ idx' = idx /\ studios' = studios)
       /\ (pc \in VerifierUnitPcs /\ pc' \notin VerifierUnitPcs \cup OutsideLoopPcs)
          => (studios' = studios
              /\ ((pc' = "loop" /\ idx' = idx + 1) \/ (pc' = "vloop" /\ idx' = idx)))
       /\ (pc = "loop" /\ pc' = "sleep") => idx > Len(studios)
       /\ (pc = "vloop" /\ pc' \notin VerifierPairPcs \cup OutsideLoopPcs \cup {"vloop"})
          => (jdx > Len(unscored) /\ pc' = "loop" /\ idx' = idx + 1 /\ studios' = studios)]_vars

\* C12 witness: in the tick in which the pipeline of the first listed unit
\* raised, the pipeline of the second one runs.
C12_Witness ==
    /\ role = "worker" /\ restarts = 0 /\ attempts = 2
    /\ pc = "details" /\ idx = 2 /\ Len(studios) = 2
    /\ studios[1] \in failed

\* C13: once the loop runs, the process leaves it only by being killed or
\* by the cancellation of a shutdown; a poll, failed or not, is followed by
\* the loop over its list or by the sleep, and the sleep by the next poll.
C13_ErrorsNeverEndLoop ==
    [][/\ (pc \notin OutsideLoopPcs /\ pc' \in OutsideLoopPcs)
          => \/ pc' = "start" /\ restarts' = restarts + 1
             \/ pc' = "stopped" /\ shutdown'
       /\ (pc = "poll" /\ pc' \notin OutsideLoopPcs \cup {"poll"}) => pc' \in {"loop", "sleep"}
       /\ (pc = "sleep" /\ pc' \notin OutsideLoopPcs \cup {"sleep"}) => pc' = "poll"]_vars

\* C13 witness: a tick begins after a tick in which a unit's pipeline raised.
C13_Witness ==
    /\ role = "worker" /\ restarts = 0 /\ pc = "poll"
    /\ failed # {}

\* C18: the cancellation of a shutdown is delivered at an await at which the
\* task is suspended and ends the loop there: the handlers do not take it for
\* an error, the step adds nothing to the progress sets and changes neither
\* the ledger nor what is in flight; after it the process starts no step and
\* sends nothing, while what was broadcast can still be executed.
C18_CooperativeShutdown ==
    /\ [](pc = "stopped" => shutdown)
    /\ [][(~shutdown /\ shutdown')
          => /\ pc \in SuspendPcs /\ pc' = "stopped"
             /\ participated' \subseteq participated
             /\ scored_pairs' \subseteq scored_pairs
             /\ returned' \subseteq returned
             /\ inflight' = inflight
             /\ <<reg, sub, vscore>>' = <<reg, sub, vscore>>]_vars
    /\ [][pc = "stopped"
          => \/ pc' = "start" /\ restarts' = restarts + 1
             \/ /\ pc' = "stopped"
                /\ participated' = participated /\ scored_pairs' = scored_pairs
                /\ inflight' \subseteq inflight /\ attempts' = attempts]_vars

\* C18 witness: the loop was cancelled while a transaction it had broadcast
\* was pending, and the ledger executed the transaction afterwards.
C18_Witness ==
    /\ pc = "stopped" /\ shutdown /\ mode = "local" /\ role = "worker"
    /\ inflight = {}
    /\ \E u \in Units : workOK[u] = 1 /\ attempts = 2

\* C14: the verifier leaves a unit whose details show no worker, or a
\* closed epoch, for the next unit without a further call; the read of the
\* unscored submissions is entered from the details step only, the pair
\* loop from that read only, and fetch, audit and submit_scores from the
\* pair loop only.
C14_SkipEmptyOrClosedUnit ==
    [][role = "verifier" =>
        /\ (pc = "vdetails" /\ (wl[CurU] = 0 \/ CurU \in closed)
            /\ pc' \notin OutsideLoopPcs \cup {"vdetails"})
           => (pc' = "loop" /\ idx' = idx + 1 /\ unscored' = unscored
               /\ inflight' = inflight /\ attempts' = attempts)
        /\ (pc' = "unscored" /\ pc # "unscored") => pc = "vdetails"
        /\ (pc' = "vloop" /\ pc \notin VerifierPairPcs \cup {"vloop"}) => pc = "unscored"
        /\ (pc' \in VerifierPairPcs /\ pc \notin VerifierPairPcs) => (pc = "vloop" /\ pc' = "fetch")]_vars

\* C14 witness: the first listed unit has no worker and the loop is at the
\* second, which has one.
C14_Witness ==
    /\ role = "verifier" /\ restarts = 0 /\ attempts = 0
    /\ pc = "vdetails" /\ idx = 2 /\ Len(studios) = 2
    /\ wl[studios[1]] = 0 /\ wl[studios[2]] > 0

\* The submitters get_unscored_submissions is to return for unit u: those
\* of the list with a submission, no slot of whose recorded vector is set.
IsExpectedUnscored(s, u) ==
    /\ \A i \in 1..Len(s) : \A j \in 1..Len(s) : i < j => s[i] < s[j]
    /\ Range(s) = {w \in 1..wl[u] : w \in wsub[u] /\ \A k \in 1..4 : Slots(vscore[u][w])[k] = 0}

\* C15: get_unscored_submissions returns, in list order, exactly the
\* submitters with a submission whose four recorded slots are all 0.
C15_UnscoredExact ==
    (pc = "rd_unscored_done" /\ out = "value") => IsExpectedUnscored(unscored, CurU)

\* C16: in each read of the reader a transport failure of the underlying
\* call is raised to the caller and a logical failure gives an empty result.
C16_ReaderFailurePolicy ==
    (pc \in {"rd_active_done", "rd_details_done", "rd_unscored_done"})
    => /\ fault \in TransportFaults => out = "raised"
       /\ fault = "logic" => out # "raised"
       /\ (fault = "logic" /\ pc # "rd_unscored_done") => out = "empty"

\* C20: the vector Auditor.audit hands to submit_scores has four integers in
\* 0..100, slot by slot the strategy's value where that is in range, 0 below
\* and 100 above it.
C20_ScoresClamped ==
    pc = "audit_done" =>
        /\ Len(scores) = 4
        /\ \A i \in 1..4 : scores[i] \in 0..100
        /\ raw.llm => \A i \in 1..4 :
              /\ raw.llmScores[i] \in 0..100 => scores[i] = raw.llmScores[i]
              /\ raw.llmScores[i] < 0 => scores[i] = 0
              /\ raw.llmScores[i] > 100 => scores[i] = 100
        /\ ~raw.llm => /\ raw.pkg.confPct \in 0..100 => scores[1] = raw.pkg.confPct
                       /\ raw.pkg.confPct < 0 => scores[1] = 0
                       /\ raw.pkg.confPct > 100 => scores[1] = 100

\* C20 witness: the strategy gave a negative and a too large value, or the
\* fetched package had a confidence above 1.
C20_Witness ==
    /\ pc = "audit_done"
    /\ \/ raw.llm /\ raw.llmScores[1] < 0 /\ raw.llmScores[4] > 100
       \/ ~raw.llm /\ raw.pkg.confPct > 100

\* C17: the units of a tick are taken one by one in the order of the list
\* the read returned, the unscored submissions of a unit likewise, and the
\* pipeline of an element is entered only from the head of its loop with no
\* call of an earlier element in progress.
C17_SequentialInReadOrder ==
    [][/\ studios' # studios
          => (pc = "poll" \/ (studios' = <<>> /\ pc' \in {"start", "stopped"}))
       /\ idx' # idx
          => \/ /\ idx' = idx + 1 /\ idx <= Len(studios) /\ studios' = studios
                /\ pc' = "loop" /\ awaitTx' = NoTx
             \/ idx' = 1 /\ (pc = "poll" \/ pc' \in {"start", "stopped"})
       /\ unscored' # unscored
          => \/ pc = "unscored" /\ pc' = "vloop" /\ jdx' = 1 /\ idx' = idx /\ studios' = studios
             \/ unscored' = <<>> /\ pc' \in {"start", "stopped"}
       /\ jdx' # jdx
          => \/ /\ jdx' = jdx + 1 /\ jdx <= Len(unscored) /\ unscored' = unscored
                /\ idx' = idx /\ pc' = "vloop" /\ awaitTx' = NoTx
             \/ jdx' = 1 /\ (pc = "unscored" \/ pc' \in {"start", "stopped"})
       /\ (pc' \in {"details", "vdetails"} /\ pc' # pc)
          => /\ pc = "loop" /\ idx' = idx /\ idx <= Len(studios)
             /\ awaitTx = NoTx /\ (pc' = "details" => steps' = {})
       /\ (pc' = "fetch" /\ pc' # pc)
          => /\ pc = "vloop" /\ jdx' = jdx /\ jdx <= Len(unscored) /\ idx' = idx
             /\ awaitTx = NoTx /\ steps' = {}
       /\ (pc \in WorkerUnitPcs \cup VerifierPairPcs \cup VerifierUnitPcs /\ pc' \notin {"start", "stopped"})
          => (pc' \in WorkerUnitPcs \cup VerifierPairPcs \cup VerifierUnitPcs
                     \cup {"loop", "vloop"})]_vars

\* C17 witness: the second unit of the tick is in its pipeline after the
\* pipeline of the first one has ended with a submission.
C17_Witness ==
    /\ role = "worker" /\ restarts = 0
    /\ pc = "research" /\ idx = 2 /\ Len(studios) = 2
    /\ studios[1] \in participated /\ awaitTx = NoTx

\* C19: no transaction the direct backend broadcasts carries the nonce of
\* a transaction the same process has broadcast before and that is still
\* pending (before a restart every pending transaction is of this process).
C19_NoNonceReuse ==
    [][(mode = "local" /\ restarts = 0)
       => \A t \in inflight' \ inflight : \A p \in inflight : t.nonce # p.nonce]_vars

\* C21: the outcome index the model-backed research returns is a position
\* of the option list and its confidence is in [0,1], whatever the model
\* answered and whatever the option list.
C21_ResearchClamped ==
    (pc = "research_done" /\ raw.key)
    => /\ 0 <= res.outcome_index /\ res.outcome_index < raw.nOptions
       /\ res.confPct \in 0..100

\* C22: a model-backed strategy whose call or parse fails returns what the
\* heuristic variant returns for the same input: the heuristic vector of the
\* package for scoring, the no-credential analysis for research.
C22_FallbackIsHeuristic ==
    /\ (pc = "audit_done" /\ raw.key /\ ~raw.llm)
       => scores = AuditScores([raw EXCEPT !.key = FALSE])
    /\ (pc = "research_done" /\ raw.key /\ raw.fails)
       => res = LlmAnalyze([raw EXCEPT !.key = FALSE])

\* C23: build raises and gives no package for an empty question, a
\* negative outcome or a confidence outside [0,1]; otherwise it returns a
\* package with the question and the outcome of the call, sources with the
\* keys url, title, snippet and the values given for them, and the
\* confidence rounded to four decimal places.
C23_BuildValidates ==
    pc = "build_done" =>
        LET bad == \/ raw.question = "" \/ raw.outcome < 0
                   \/ raw.confidence < 0 \/ raw.confidence > ConfUnit
        IN /\ bad => (out = "raised" /\ res = <<>>)
           /\ ~bad =>
                /\ out = "value"
                /\ res.question = raw.question /\ res.outcome = raw.outcome
                /\ Len(res.sources) = Len(raw.sources)
                /\ \A i \in 1..Len(res.sources) :
                      /\ DOMAIN res.sources[i] = {"url", "title", "snippet"}
                      /\ \A k \in DOMAIN raw.sources[i] \cap DOMAIN res.sources[i] :
                            res.sources[i][k] = raw.sources[i][k]
                /\ res.confidence % 10 = 0
                /\ res.confidence - raw.confidence \in -5..5

\* C23 witness: a package was built from a confidence with a fifth decimal
\* place and a source with a key outside the schema.
C23_Witness ==
    /\ pc = "build_done" /\ out = "value"
    /\ raw.confidence = 12346 /\ res.confidence = 12350
    /\ Len(raw.sources) = 2 /\ "extra" \in DOMAIN raw.sources[1]

\* C24: a fetch of a reference of the local-testing shape returns the
\* canned package for that reference without a call to the gateway,
\* whatever the gateway holds under it; without a wallet the fetch of the
\* reference a store returned gives the canned package, not the stored one.
C24_StubShapeReturnsStub ==
    pc = "fetch_done" =>
        /\ IsStubShape(res.ref)
           => (out = "value" /\ res.val = StubPackage(res.ref) /\ ~res.netCall)
        /\ (raw.store /\ ~raw.wallet)
           => (res.ref = Sha256Hex(raw.pkg) /\ res.val = StubPackage(res.ref)
               /\ res.val # raw.pkg)

\* C24 witness: without a wallet a package was stored and fetched while the
\* gateway serves another package under the reference.
C24_Witness ==
    /\ pc = "fetch_done" /\ raw.store /\ ~raw.wallet
    /\ raw.net[res.ref] \in StoredPackages /\ raw.net[res.ref] # raw.pkg
    /\ res.val = StubPackage(res.ref)

C26_ReadThroughOrder ==
    [][/\ (pc = "start" /\ pc' # pc /\ mode = "gateway" /\ idCache # 0)
          => /\ pc' = "poll" /\ agent_id' = idCache
             /\ idCache' = idCache /\ inflight' = inflight
       /\ (pc' = "id_lookup" /\ pc' # pc)
          => (pc = "start" /\ mode = "gateway" /\ idCache = 0)
       /\ (pc = "id_lookup" /\ pc' = "poll")
          => (idChain > 0 /\ agent_id' \in 1..idChain /\ idCache' = agent_id')
       /\ (pc' = "id_send" /\ pc' # pc)
          => (pc = "id_lookup" /\ idCache = 0 /\ idChain = 0)
       /\ (pc = "id_wait" /\ pc' = "poll")
          => (awaitRes = "ok" /\ agent_id' = idChain /\ idCache' = agent_id')
       /\ idCache' # idCache
          => (pc \in {"id_lookup", "id_wait"} /\ pc' = "poll")]_vars

\* C26 witness: a process finds its cache empty and is at the on-chain
\* lookup while the identity an earlier process registered is on chain.
C26_Witness ==
    /\ mode = "gateway" /\ restarts = 1
    /\ pc = "id_lookup" /\ idCache = 0 /\ idChain = 1

AllWorkerSteps == {"details", "research", "build", "archive"}

\* C27: the worker enters research only from a details read that returned
\* and showed the unit open, the package build only from research, the
\* archival only from the build, and submit_work only from an archival that
\* stored the package in this pipeline; a unit read as closed is added to
\* participated (or the read failed) and nothing is researched, archived or
\* sent for it.
C27_WorkerStepOrder ==
    [][role = "worker" =>
       /\ (pc' = "research" /\ pc' # pc)
          => (pc = "details" /\ CurU \notin closed /\ steps' = {"details"})
       /\ (pc' = "build" /\ pc' # pc)
          => (pc = "research" /\ steps' = {"details", "research"})
       /\ (pc' = "archive" /\ pc' # pc)
          => (pc = "build" /\ steps' = {"details", "research", "build"} /\ archN' = archN)
       /\ (pc' \in BackendPcs /\ pc \notin BackendPcs)
          => /\ pc = "archive" /\ pc' = EntryPc /\ steps' = AllWorkerSteps
             /\ archN' = [archN EXCEPT ![CurU] = @ + 1]
             /\ idx' = idx /\ studios' = studios
       /\ (pc' \in BackendPcs) => steps' = AllWorkerSteps
       /\ \A tx \in inflight' \ inflight :
             tx.kind \in {"reg", "main"}
             => (pc \in BackendPcs /\ steps = AllWorkerSteps /\ tx.unit = CurU)
       /\ (pc = "details" /\ CurU \in closed /\ pc' \notin OutsideLoopPcs \cup {pc})
          => /\ pc' = "loop" /\ idx' = idx + 1
             /\ \/ participated' = participated \cup {CurU}
                \/ (participated' = participated /\ CurU \in failed')
             /\ archN' = archN /\ inflight' = inflight /\ steps' = steps]_vars

\* C27 witness: the first unit of the tick was read as closed and skipped,
\* the second one is at submit_work after its four steps.
C27_Witness ==
    /\ role = "worker" /\ restarts = 0
    /\ pc = EntryPc /\ idx = 2 /\ Len(studios) = 2
    /\ studios[1] \in closed /\ studios[1] \in participated
    /\ archN[studios[1]] = 0 /\ sub[studios[1]] = 0
    /\ steps = AllWorkerSteps /\ archN[studios[2]] = 1

\* C28: for a unit in participated the worker reads no details, researches,
\* builds and archives nothing and sends no transaction, in any later tick
\* of the process.
C28_ParticipatedUntouched ==
    [][role = "worker" =>
       /\ (pc' \in WorkerUnitPcs) => studios'[idx'] \notin participated'
       /\ \A u \in participated : archN'[u] = archN[u]
       /\ \A tx \in inflight' \ inflight :
             tx.kind \in {"reg", "main"} => tx.unit \notin participated
       /\ (pc = "loop" /\ idx <= Len(studios) /\ CurU \in participated /\ pc' \notin OutsideLoopPcs)
          => (pc' = "loop" /\ idx' \in {idx, idx + 1} /\ attempts' = attempts)]_vars

\* C28 witness: a later tick lists one unit, which is in participated, and
\* has passed it without an attempt.
C28_Witness ==
    /\ role = "worker" /\ restarts = 0
    /\ pc = "loop" /\ Len(studios) = 1 /\ idx = 2
    /\ participated = Units /\ attempts = 2

\* C29: participated and scored_pairs are empty when the process starts its
\* loop, and no step of the process takes an element out of them; they are
\* lost only with the process.
C29_ProgressSetsGrow ==
    /\ [](pc \in {"start", "id_lookup", "id_send", "id_wait"}
          => (participated = {} /\ scored_pairs = {}))
    /\ [][/\ (pc \in {"start", "id_lookup", "id_wait"} /\ pc' = "poll")
             => (participated' = {} /\ scored_pairs' = {})
          /\ (pc' \notin {"start", "stopped"})
             => (participated \subseteq participated' /\ scored_pairs \subseteq scored_pairs')]_vars

\* C29 witness: the worker holds both units in participated after a tick in
\* which the pipeline of one of them had failed.
C29_Witness ==
    /\ role = "worker" /\ restarts = 0 /\ pc = "sleep"
    /\ participated = Units /\ \E u \in Units : u \in closed /\ sub[u] = 0 /\ archN[u] = 1

\* C30: the read of the active units is entered from the sleep only (or
\* from the start-up for the first tick), the sleep leads to that read and
\* to nothing else, the sleep is entered when the list of the tick is
\* through or its read failed, and no step of a pipeline, a timeout
\* included, leads to the read or to the sleep.
C30_OneSleepPerTick ==
    [][/\ (pc' = "poll" /\ pc' # pc)
          => pc \in {"sleep", "start", "id_lookup", "id_wait"}
       /\ (pc = "sleep" /\ pc' \notin {"sleep", "start", "stopped"}) => pc' = "poll"
       /\ (pc' = "sleep" /\ pc' # pc)
          => (pc = "poll" \/ (pc = "loop" /\ idx > Len(studios)))
       /\ (pc \in WorkerUnitPcs \cup VerifierUnitPcs \cup VerifierPairPcs \cup {"vloop"})
          => pc' \notin {"poll", "sleep"}
       /\ (pc \in {"d_reg_wait", "d_main_wait", "g_wait"} /\ awaitRes = "pending"
           /\ pc' \notin {pc, "start", "stopped"})
          => pc' \in {"loop", "vloop"}]_vars

\* C30 witness: the verifier sleeps after a tick in which both of its
\* attempts failed, one of them by a timeout whose transaction is pending.
C30_Witness ==
    /\ role = "verifier" /\ mode = "local" /\ restarts = 0
    /\ pc = "sleep" /\ attempts = 2 /\ scored_pairs = {} /\ inflight # {}

\* The position of the loop with the backend call taken as one step: every
\* position inside submit_work / submit_scores is "call", every position
\* inside auto_register is "start".
LoopPc ==
    IF pc \in BackendPcs THEN "call"
    ELSE IF pc \in {"id_lookup", "id_send", "id_wait"} THEN "start"
    ELSE pc

\* C31: what the loop does around a backend call is stated without the mode:
\* auto_register is called once before the loop and leads to the first poll
\* or ends run(); submit_work / submit_scores is entered from the archival /
\* the audit with the unit, the reference or the pair and the scores of the
\* loop; while the call runs the loop's variables stand still; when it
\* returns the element is added to the progress set, when it raises the set
\* is left alone, and in both cases the loop goes on with its next element.
C31_LoopIgnoresMode ==
    [][/\ (LoopPc = "start" /\ LoopPc' \notin {"start", "stopped"})
          => (LoopPc' \in {"poll", "dead"} /\ participated' = {} /\ scored_pairs' = {})
       /\ (LoopPc' = "call" /\ LoopPc # "call")
          => /\ pc = (IF role = "worker" THEN "archive" ELSE "audit")
             /\ <<studios, idx, unscored, jdx>>' = <<studios, idx, unscored, jdx>>
             /\ <<participated, scored_pairs>>' = <<participated, scored_pairs>>
             /\ role = "worker" => cid' = attempts
             /\ role = "verifier" => scores' \in {AuditScores(r) : r \in LoopAuditInputs}
       /\ (LoopPc = "call" /\ LoopPc' = "call")
          => /\ <<studios, idx, unscored, jdx>>' = <<studios, idx, unscored, jdx>>
             /\ <<participated, scored_pairs, cid, scores>>'
                   = <<participated, scored_pairs, cid, scores>>
       /\ (LoopPc = "call" /\ LoopPc' \notin {"call", "start", "stopped"})
          => /\ studios' = studios /\ unscored' = unscored
             /\ IF role = "worker"
                THEN LoopPc' = "loop" /\ idx' = idx + 1 /\ jdx' = jdx
                ELSE LoopPc' = "vloop" /\ jdx' = jdx + 1 /\ idx' = idx
             /\ \/ /\ returned' = returned \cup {Key} /\ Key \notin returned
                   /\ participated' = IF role = "worker" THEN participated \cup {CurU}
                                      ELSE participated
                   /\ scored_pairs' = IF role = "verifier"
                                      THEN scored_pairs \cup {<<CurU, CurW>>}
                                      ELSE scored_pairs
                \/ /\ returned' = returned
                   /\ participated' = participated /\ scored_pairs' = scored_pairs]_vars

\* C31 witness: with the delegating backend the verifier has one pair whose
\* call returned in its set and is past a second pair whose call raised.
C31_Witness ==
    /\ mode = "gateway" /\ role = "verifier" /\ restarts = 0
    /\ pc = "vloop" /\ jdx = 3 /\ Len(unscored) = 2
    /\ scored_pairs = {<<CurU, unscored[1]>>} /\ attempts = 2

\* C32: get_active_studios raises when the registry call fails with a
\* connection, timeout or OS-level error, returns the empty list when it
\* fails with another error, and otherwise returns the units that are not
\* settled, each once, in the order of the ledger.
C32_ActiveReadFailureKinds ==
    pc = "rd_active_done" =>
        /\ fault \in {"connection", "timeout", "os"} => out = "raised"
        /\ fault = "logic" => (out = "empty" /\ studios = <<>>)
        /\ fault = "none"
           => /\ out = "value"
              /\ Range(studios) = Units \ settled
              /\ \A i \in 1..Len(studios) : \A j \in 1..Len(studios) :
                    i < j => studios[i] < studios[j]

\* C32 witness: the call failed with a timeout and the error was raised.
C32_Witness ==
    pc = "rd_active_done" /\ fault = "timeout" /\ out = "raised" /\ settled = {1}

\* C33: a unit is in participated of the worker only if this process read
\* its details with the closed flag set or a submit_work call for it
\* returned: the set gets a unit only at such a step, and every unit in it
\* is closed or has a returned call.
C33_ParticipatedJustified ==
    /\ [](role = "worker" => \A u \in participated : u \in closed \/ <<u, 0>> \in returned)
    /\ [][role = "worker" =>
          \A u \in participated' \ participated :
             /\ u = CurU
             /\ \/ pc = "details" /\ u \in closed
                \/ /\ pc \in BackendPcs /\ <<u, 0>> \in returned'
                   /\ mode = "local" => (pc = "d_main_wait" /\ awaitRes = "ok")]_vars

\* C33 witness: participated holds a unit that was read as closed and never
\* submitted for, and a unit whose submit_work returned.
C33_Witness ==
    /\ role = "worker" /\ restarts = 0 /\ pc = "loop"
    /\ \E u \in participated : u \in closed /\ <<u, 0>> \notin returned /\ archN[u] = 0
    /\ \E v \in participated : <<v, 0>> \in returned /\ v \notin closed

\* C34: every submit_work call of the worker carries the reference that the
\* archival call of the same pass returned, that reference is not empty, and
\* the outcome of the call is the outcome written in the archived package.
C34_SubmitCarriesArchived ==
    pc = "pipe_submitted" =>
        /\ res.call.evidence_cid = res.ref
        /\ res.call.evidence_cid # EmptyRef
        /\ res.call.outcome = res.pkg.outcome

\* C35: every outcome passed to submit_work is an index of the option list
\* read in the same pass, which has at most 20 entries.
C35_OutcomeIsOptionIndex ==
    pc = "pipe_submitted" =>
        /\ 0 <= res.call.outcome /\ res.call.outcome < res.nOptions
        /\ res.nOptions <= OptionCap

\* The loop of run() is over: the task was cancelled after a shutdown signal.
LoopEnded == shutdown \/ pc = "stopped"

\* C36: a unit (or pair) whose pipeline fails on every attempt is tried
\* again and again while it is listed, and every other listed unit of the
\* worker is eventually in participated, every other unscored pair of an
\* open unit of the verifier eventually in scored, unless the loop is ended
\* by a shutdown.
C36_FailingUnitNeverBlocks ==
    /\ \A u \in Units :
          (pc = "poll" /\ role = "worker" /\ u \notin raw.badUnits)
             ~> (u \in participated \/ u \in settled \/ LoopEnded)
    /\ \A u \in Units :
          []<>((role = "worker" /\ u \in raw.badUnits /\ pc \notin OutsideLoopPcs)
                  => ((pc = "details" /\ CurU = u) \/ u \in settled \/ LoopEnded))
    /\ \A u \in Units : \A w \in Workers :
          (pc = "poll" /\ role = "verifier" /\ u \notin raw.badUnits
              /\ <<u, w>> \notin raw.badPairs /\ w \in wsub[u])
             ~> (<<u, w>> \in scored_pairs \/ u \in closed \/ LoopEnded)
    /\ \A u \in Units : \A w \in Workers :
          []<>((role = "verifier" /\ <<u, w>> \in raw.badPairs /\ u \notin raw.badUnits
                   /\ w \in wsub[u] /\ pc \notin OutsideLoopPcs)
                  => ((pc = "fetch" /\ CurU = u /\ CurW = w) \/ u \in closed \/ LoopEnded))

\* C36 witness: in a later tick the unit that failed before is tried again
\* while the other unit is in participated.
C36_Witness ==
    /\ role = "worker" /\ raw.badUnits = {1}
    /\ pc = "details" /\ CurU = 1 /\ 1 \in failed
    /\ 2 \in participated /\ <<2, 0>> \in returned

\* C37: a started process that gets no shutdown request eventually performs
\* a poll tick (its list of active units is read).
C37_EventuallyPolls ==
    <>(pc \notin {"start", "id_lookup", "id_send", "id_wait", "dead", "poll"} \/ shutdown)

\* C38: in the delegating backend every submit_work / submit_scores call
\* starts with a registration request for the unit, whether or not the wallet
\* is registered there, so that the requests for a unit are as many as the
\* calls for it; the workflow is created only after the request returned,
\* and a request that raises ends the call with no workflow created and the
\* progress sets as they were.
C38_RegistersOnEveryCall ==
    /\ [](mode = "local" => \A u \in Units : regReq[u] = 0)
    /\ []((mode = "gateway" /\ role = "worker" /\ restarts = 0 /\ pc # "start")
            => \A u \in Units :
                  regReq[u] = archN[u] - (IF pc = "g_reg" /\ CurU = u THEN 1 ELSE 0))
    /\ [][mode = "gateway" =>
          /\ (pc \notin GatewayPcs /\ pc' \in GatewayPcs) => pc' = "g_reg"
          /\ (pc = "g_reg" /\ pc' \notin {"g_reg", "start"})
                => regReq' = [regReq EXCEPT ![CurU] = @ + 1]
          /\ regReq' # regReq => pc = "g_reg"
          /\ (pc' = "g_submit" /\ pc # "g_submit") => pc = "g_reg"
          /\ (inflight' \ inflight # {}) => pc \in {"g_submit", "id_send"}
          /\ (pc = "g_reg" /\ pc' \notin {"g_reg", "start", "g_submit"})
                => /\ pc' \in {"loop", "vloop"}
                   /\ inflight' = inflight
                   /\ returned' = returned
                   /\ participated' = participated /\ scored_pairs' = scored_pairs]_vars

\* C38 witness: a second call for a unit the wallet is already registered in
\* made its registration request and goes on to create the workflow.
C38_Witness ==
    /\ mode = "gateway" /\ restarts = 0
    /\ pc = "g_submit" /\ regReq[CurU] = 2 /\ regOK[CurU] = 1

\* C39: a tick whose read of the active units raises goes from the read
\* straight to the sleep: no unit is taken, nothing is sent, participated
\* and scored are as before; and after the sleep the list is read again.
C39_FailedPollSkipsTick ==
    [][/\ (pc = "poll" /\ pc' \notin {"poll", "loop", "start"})
          => /\ pc' = "sleep"
             /\ participated' = participated /\ scored_pairs' = scored_pairs
             /\ <<studios, idx, unscored, jdx>>' = <<studios, idx, unscored, jdx>>
             /\ inflight' = inflight /\ attempts' = attempts
             /\ <<returned, failed, steps, archN, regReq>>'
                   = <<returned, failed, steps, archN, regReq>>
       /\ (pc = "poll" /\ pc' = "loop")
          => /\ studios' \in {SeqOfSet(Units \ settled), <<>>} /\ idx' = 1
             /\ participated' = participated /\ scored_pairs' = scored_pairs
       /\ (pc = "sleep" /\ pc' \notin {"sleep", "start", "stopped"})
          => /\ pc' = "poll"
             /\ participated' = participated /\ scored_pairs' = scored_pairs]_vars

\* C39 witness: the process sleeps after a read that raised: it still holds
\* the list of the tick before, with a unit that was settled since, and the
\* unit it completed.
C39_Witness ==
    /\ restarts = 0 /\ pc = "sleep"
    /\ settled # {} /\ Range(studios) = Units
    /\ participated # {}
====
